---- MODULE Spec2Model ----
(***************************************************************************)
(* Booster RF channel lifecycle and channel registry.                      *)
(*                                                                         *)
(* Voltages are integers in tenths of a volt (-3.3 V is -33), interlock    *)
(* thresholds integers in tenths of a dBm, threshold-DAC voltages integers *)
(* in units of 10 microvolts.  A pin level TRUE is electrically high.      *)
(***************************************************************************)
EXTENDS Integers, Sequences, FiniteSets, TLC

\* ------------------------------------------------------------------ bounds
\* Number of channel slots of the model (the firmware has 8).
NumChannels == 2

\* Bias voltages passed to set_bias: below range, pinch-off, nominal, above range.
BiasInputs == {-34, -33, -16, 1}

\* Interlock thresholds (output, reflected) written through a property write.
ThresholdInputs == {<<0, 0>>}

\* Interlock thresholds (output, reflected) of the threshold study: the values of
\* the constructor, both in range, reflected above range (50 dBm), output above
\* range (70 dBm).
WideThresholdInputs == {<<0, 0>>, <<100, 200>>, <<100, 500>>, <<700, 200>>}

\* Bias voltages the tuning search may settle on.
TuneChoices == {-16}

\* ------------------------------------------------------------ program data
\* What is remembered of a registry operation: the operation, its slot, whether
\* it reached the channel, then its argument and what it returned.
Record(op, channel, given, returned, touched, lv, before) ==
    [op |-> op, channel |-> channel, touched |-> touched, sensed |-> lv,
     before |-> before, arg |-> given, result |-> returned]

Channel == 0 .. (NumChannels - 1)

\* A faulty channel-to-bus map that is off by one bus.
into_bus_off_by_one(channel) == (channel + 1) % NumChannels

\* impl Into<tca9548::Bus> for Channel: channel n is wired to bus n.
into_bus(channel) == channel

\* Supply voltage of the bias DAC: its largest output, pinch-off of the amplifier.
SupplyVoltage == 33

PropertyId ==
    {"InterlockThresholds", "InputPowerTransform", "OutputPowerTransform",
     "ReflectedPowerTransform"}

\* Levels of the three sense lines of one channel (all active low).
Levels == [alert : BOOLEAN, input_overdrive : BOOLEAN, output_overdrive : BOOLEAN]

NoLevels == [alert |-> TRUE, input_overdrive |-> TRUE, output_overdrive |-> TRUE]

\* Sense-line levels the environment presents at a poll: no line asserted, or one of them.
SenseInputs ==
    {NoLevels, [NoLevels EXCEPT !.alert = FALSE],
     [NoLevels EXCEPT !.input_overdrive = FALSE],
     [NoLevels EXCEPT !.output_overdrive = FALSE]}

VARIABLES
    channels,   \* BoosterChannels.channels: per slot an RfChannel (some) or None
    dev,        \* per slot the hardware behind the bus: DAC outputs
    settings,   \* per slot the BoosterChannelSettings: RAM data and EEPROM container
    mux,        \* the bus the multiplexer has selected (-1: none)
    pc,         \* "idle", "sweep" (inside BoosterChannels::update), "panic"
    cursor,     \* the slot the sweep visits next
    visited,    \* the slots whose RfChannel the running/last sweep updated
    panic_msg,  \* the message of the panic that stopped the firmware
    last,       \* the most recent registry operation and what it returned
    client      \* ControlState and its MQTT client: connection, subscriptions, responses

vars == <<channels, dev, settings, mux, pc, cursor, visited, panic_msg, last, client>>

\* ------------------------------------------------------------ device drivers
\* Dac7571::set_voltage: the DAC drives 0 V .. supply; the programmed voltage is returned.
Dac7571_set_voltage(voltage, i2c_ok) ==
    IF voltage < 0 \/ voltage > SupplyVoltage
    THEN [err |-> "Bounds", voltage |-> 0]
    ELSE IF ~i2c_ok
         THEN [err |-> "I2c", voltage |-> 0]
         ELSE [err |-> "Ok", voltage |-> voltage]

\* Ad5627::set_voltage: 2.5 V reference; the programmed voltage is returned.
Ad5627_set_voltage(voltage, i2c_ok) ==
    IF voltage < 0 \/ voltage >= 250000
    THEN [err |-> "Range", voltage |-> 0]
    ELSE IF ~i2c_ok
         THEN [err |-> "I2c", voltage |-> 0]
         ELSE [err |-> "Ok", voltage |-> voltage]

\* ------------------------------------------------------------------ pins
\* A faulty first write of power_down_channel that takes the supply away.
power_down_first_enable_power(ch) == [ch EXCEPT !.enable_power = FALSE]

\* ChannelPins::power_down_channel, first write: self.signal_on.set_low().
power_down_first(ch) == [ch EXCEPT !.signal_on = FALSE]

\* ChannelPins::power_down_channel, second write: self.enable_power.set_low().
power_down_second(ch) == [ch EXCEPT !.enable_power = FALSE]

\* ChannelPins::power_down_channel: signal_on low, then enable_power low.
power_down_channel(ch) == power_down_second(power_down_first(ch))

\* The two halves of the word written to GPIOG_BSRR (0xFF00_0000): the upper
\* half resets output bits, the lower half sets them.
GpiogReset == 65280
GpiogSet == 0

\* The two halves of the word written to GPIOD_BSRR (0x00FF_0000).
GpiodReset == 255
GpiodSet == 0

\* Bit i of a 16-bit half word.
Bit(word, i) == (word \div (2 ^ i)) % 2 = 1

\* A write to a port's BSRR as one output pin sees it: set wins over reset.
bsrr_write(level, pin, set, reset) ==
    IF Bit(set, pin) THEN TRUE ELSE IF Bit(reset, pin) THEN FALSE ELSE level

\* The port pins of a channel's outputs: SIG_ON of channel n is PG(8+n), EN_PWR is PD(n).
sig_on_pin(c) == 8 + c

en_pwr_pin(c) == c

\* shutdown_channels, first write: "disable all SIG_ON outputs".
shutdown_sig_on(chs) ==
    [c \in Channel |->
        [chs[c] EXCEPT !.signal_on = bsrr_write(@, sig_on_pin(c), GpiogSet, GpiogReset)]]

\* A faulty second write that puts the mask in the set half of the word (0x0000_00FF).
shutdown_en_pwr_set_half(chs) ==
    [c \in Channel |->
        [chs[c] EXCEPT !.enable_power = bsrr_write(@, en_pwr_pin(c), GpiodReset, GpiodSet)]]

\* shutdown_channels, second write: "disable all EN_PWR outputs".
shutdown_en_pwr(chs) ==
    [c \in Channel |->
        [chs[c] EXCEPT !.enable_power = bsrr_write(@, en_pwr_pin(c), GpiodSet, GpiodReset)]]

\* platform::shutdown_channels: the GPIO reset bits of all SIG_ON and EN_PWR outputs.
shutdown_channels(chs) == shutdown_en_pwr(shutdown_sig_on(chs))

\* --------------------------------------------------------------- RfChannel
\* An RfChannel method maps the channel (ch) and its devices (d) to the new
\* channel and devices, the Result it returns and the panic it raises ("": none).
Outcome(ch, d, result, panic) ==
    [ch |-> ch, d |-> d, result |-> result, panic |-> panic]

\* RfChannel::set_interlock_thresholds
RfChannel_set_interlock_thresholds(ch, d, output, reflected, ok_a, ok_b) ==
    LET va == (reflected + 56) * 525
        wa == Ad5627_set_voltage(va, ok_a)
        vb == (output + 56) * 350
        wb == Ad5627_set_voltage(vb, ok_b)
        ch1 == [ch EXCEPT !.reflected_interlock_threshold = (wa.voltage \div 525) + 356]
        d1 == [d EXCEPT !.thr_a = wa.voltage]
    IN  IF wa.err = "Range" THEN Outcome(ch, d, "Bounds", "")
        ELSE IF wa.err = "I2c" THEN Outcome(ch, d, "Interface", "")
        ELSE IF wb.err = "Range" THEN Outcome(ch1, d1, "Bounds", "")
        ELSE IF wb.err = "I2c" THEN Outcome(ch1, d1, "Interface", "")
        ELSE Outcome([ch1 EXCEPT !.output_interlock_threshold = (wb.voltage \div 350) + 356],
                     [d1 EXCEPT !.thr_b = wb.voltage], "Ok", "")

\* A faulty is_overdriven that takes the overdrive lines as active high.
is_overdriven_active_high(lv) ==
    LET input_overdrive == lv.input_overdrive
        output_overdrive == lv.output_overdrive
    IN  input_overdrive \/ output_overdrive

\* RfChannel::is_overdriven
is_overdriven(lv) ==
    LET input_overdrive == ~lv.input_overdrive
        output_overdrive == ~lv.output_overdrive
    IN  input_overdrive \/ output_overdrive

\* RfChannel::is_enabled
is_enabled(ch, lv) ==
    LET enabled == ch.enable_power /\ ch.signal_on
        bias_enabled == ch.bias_voltage > -30
    IN  enabled /\ ~is_overdriven(lv) /\ bias_enabled

\* RfChannel::is_alarmed
is_alarmed(lv) == ~lv.alert

\* RfChannel::enable
RfChannel_enable(ch, d) == Outcome(ch, d, "NotImplemented", "")

\* A faulty disable that writes the bias DAC first and reaches the pins only
\* when the write went through.
RfChannel_disable_dac_first(ch, d, i2c_ok) ==
    LET w == Dac7571_set_voltage(-33, i2c_ok)
        down == power_down_channel(ch)
    IN  IF w.err # "Ok"
        THEN Outcome(ch, d, "Panic", "Failed to disable RF bias voltage")
        ELSE Outcome(down, [d EXCEPT !.bias_dac = w.voltage], "Ok", "")

\* RfChannel::disable
RfChannel_disable(ch, d, i2c_ok) ==
    LET down == power_down_channel(ch)
        w == Dac7571_set_voltage(-33, i2c_ok)
    IN  IF w.err # "Ok"
        THEN Outcome(down, d, "Panic", "Failed to disable RF bias voltage")
        ELSE Outcome(down, [d EXCEPT !.bias_dac = w.voltage], "Ok", "")

\* RfChannel::get_temperature
RfChannel_get_temperature(ch, d, i2c_ok) ==
    IF i2c_ok THEN Outcome(ch, d, "Ok", "")
    ELSE Outcome(ch, d, "Panic", "get_remote_temperature unwrap")

\* A faulty set_bias that stores the request in the shadow before the DAC has accepted it.
RfChannel_set_bias_shadow_first(ch, d, bias_voltage, i2c_ok) ==
    LET inverted == -1 * bias_voltage
        stored == [ch EXCEPT !.bias_voltage = inverted]
        w == Dac7571_set_voltage(inverted, i2c_ok)
    IN  IF w.err = "Bounds" THEN Outcome(stored, d, "Bounds", "")
        ELSE IF w.err # "Ok" THEN Outcome(stored, d, "Panic", "Failed to set DAC bias voltage")
        ELSE Outcome(stored, [d EXCEPT !.bias_dac = w.voltage], "Ok", "")

\* RfChannel::set_bias
RfChannel_set_bias(ch, d, bias_voltage, i2c_ok) ==
    LET inverted == -1 * bias_voltage
        w == Dac7571_set_voltage(inverted, i2c_ok)
    IN  IF w.err = "Bounds" THEN Outcome(ch, d, "Bounds", "")
        ELSE IF w.err # "Ok" THEN Outcome(ch, d, "Panic", "Failed to set DAC bias voltage")
        ELSE Outcome([ch EXCEPT !.bias_voltage = w.voltage],
                     [d EXCEPT !.bias_dac = w.voltage], "Ok", "")

\* RfChannel::get_output_interlock_threshold
get_output_interlock_threshold(ch) == ch.output_interlock_threshold

\* RfChannel::get_reflected_interlock_threshold
get_reflected_interlock_threshold(ch) == ch.output_interlock_threshold

\* RfChannel::get_bias_voltage
get_bias_voltage(ch) == ch.bias_voltage

\* RfChannel::get_power_measurements (get_supply_measurements): three power-monitor reads.
RfChannel_get_power_measurements(ch, d, i2c_ok) ==
    IF i2c_ok THEN Outcome(ch, d, "Ok", "")
    ELSE Outcome(ch, d, "Panic", "power_monitor get_voltage unwrap")

\* RfChannel::get_input_power
RfChannel_get_input_power(ch, d, i2c_ok) ==
    IF i2c_ok THEN Outcome(ch, d, "Ok", "")
    ELSE Outcome(ch, d, "Panic", "input_power_adc get_voltage unwrap")

\* RfChannel::new: the channel an installed module enumerates as.
RfChannel_new ==
    LET fresh == [some |-> TRUE, enable_power |-> FALSE, signal_on |-> FALSE,
                  output_interlock_threshold |-> -1000,
                  reflected_interlock_threshold |-> -1000,
                  bias_voltage |-> -33]
        probed == [bias_dac |-> Dac7571_set_voltage(33, TRUE).voltage, thr_a |-> 0, thr_b |-> 0]
        t == RfChannel_set_interlock_thresholds(fresh, probed, 0, 0, TRUE, TRUE)
    IN  RfChannel_set_bias(t.ch, t.d, -33, TRUE)

\* A slot whose module did not enumerate: pins powered down, no RfChannel.
NoChannel ==
    [some |-> FALSE, enable_power |-> FALSE, signal_on |-> FALSE,
     output_interlock_threshold |-> 0, reflected_interlock_threshold |-> 0,
     bias_voltage |-> 0]

\* ChannelPins::new: the pins of a slot, whatever the levels of its two outputs
\* were, are powered down before they are handed out.
ChannelPins_new(enable_power, signal_on) ==
    power_down_channel([NoChannel EXCEPT !.enable_power = enable_power,
                                         !.signal_on = signal_on])

\* The devices of a slot before Devices::new: the bias DAC has not been
\* commanded, the threshold DAC has not been written.
UncommandedDevices == [bias_dac |-> 0, thr_a |-> 0, thr_b |-> 0]

\* Devices::new up to the module probe: the bias DAC is put in pinch-off first.
NoDevices == [bias_dac |-> Dac7571_set_voltage(33, TRUE).voltage, thr_a |-> 0, thr_b |-> 0]

\* The channel update of the sweep: a sensed interlock disables the channel.
RfChannel_update(ch, d, lv, dev_ok, i2c_ok) ==
    IF is_overdriven(lv) \/ is_alarmed(lv)
    THEN RfChannel_disable(ch, d, i2c_ok)
    ELSE IF ~dev_ok THEN Outcome(ch, d, "Interface", "")
         ELSE Outcome(ch, d, "Ok", "")

\* ChannelState derived from the pins, the sense lines and the shadow bias.
get_state(ch, lv) ==
    IF is_overdriven(lv) \/ is_alarmed(lv) THEN "Tripped"
    ELSE IF is_enabled(ch, lv) THEN "Enabled"
    ELSE IF ch.enable_power THEN "Powered"
    ELSE "Disabled"

\* Bias tuning: the search settles on a bias, sets it and reads the drain current.
RfChannel_tune_bias(ch, d, bias_voltage, i2c_ok) ==
    RfChannel_set_bias(ch, d, bias_voltage, i2c_ok)

\* Property write: the interlock thresholds are set through the threshold DAC.
RfChannel_set_property(ch, d, prop, ok_a, ok_b) ==
    RfChannel_set_interlock_thresholds(ch, d, prop[1], prop[2], ok_a, ok_b)

\* Property read: the interlock thresholds, or the (slope, offset) of a power
\* transform of the settings the channel keeps in RAM.
RfChannel_get_property(ch, data, id) ==
    CASE id = "InterlockThresholds" ->
            <<get_output_interlock_threshold(ch), get_reflected_interlock_threshold(ch)>>
      [] id = "InputPowerTransform" ->
            <<data.input_power_transform.slope, data.input_power_transform.offset>>
      [] id = "OutputPowerTransform" ->
            <<data.output_power_transform.slope, data.output_power_transform.offset>>
      [] id = "ReflectedPowerTransform" ->
            <<data.reflected_power_transform.slope, data.reflected_power_transform.offset>>

\* f32::NAN: a threshold that has no value, apart from every threshold in range.
NaN == -100000

\* LinearTransformation::new(slope, offset): the slope as the gain in front of
\* the detector's 35 mV/dB in tenths (1.5 / 0.035 is 15), the offset in tenths of a dBm.
LinearTransformation_new(slope, offset) == [slope |-> slope, offset |-> offset]

\* BoosterChannelData::default
DefaultData ==
    [reflected_interlock_threshold |-> NaN, output_interlock_threshold |-> NaN,
     bias_voltage |-> -32, enabled |-> FALSE,
     input_power_transform |-> LinearTransformation_new(15, -356 + 89),
     output_power_transform |-> LinearTransformation_new(10, -356 + 198 + 100),
     reflected_power_transform |-> LinearTransformation_new(15, -356 + 198 + 100)]

\* postcard::to_slice of the settings: the fields in the order of the struct, a
\* bool as one byte, every encoding of fixed length.
to_slice(data) ==
    <<data.reflected_interlock_threshold, data.output_interlock_threshold,
      data.bias_voltage, IF data.enabled THEN 1 ELSE 0,
      data.input_power_transform.slope, data.input_power_transform.offset,
      data.output_power_transform.slope, data.output_power_transform.offset,
      data.reflected_power_transform.slope, data.reflected_power_transform.offset>>

\* board_data[..serialized.len()].copy_from_slice(serialized): the region beyond
\* the serialized settings keeps what it held.
copy_from_slice(board_data, serialized) ==
    serialized \o SubSeq(board_data, Len(serialized) + 1, Len(board_data))

\* BoosterChannelData::serialize_into: the settings are serialized over the
\* start of the board data of the container.
serialize_into(data, config) ==
    [config EXCEPT !.board_data = copy_from_slice(@, to_slice(data))]

\* The part of the board data the serialized settings occupy.
payload(board_data) == SubSeq(board_data, 1, Len(to_slice(DefaultData)))

\* A faulty deserialize that takes the output and the reflected power transform
\* from each other's place.
deserialize_transforms_swapped(board_data) ==
    IF board_data[4] \notin {0, 1}
    THEN [result |-> "Panic", data |-> DefaultData]
    ELSE LET config == [reflected_interlock_threshold |-> board_data[1],
                        output_interlock_threshold |-> board_data[2],
                        bias_voltage |-> board_data[3], enabled |-> board_data[4] = 1,
                        input_power_transform |->
                            LinearTransformation_new(board_data[5], board_data[6]),
                        output_power_transform |->
                            LinearTransformation_new(board_data[9], board_data[10]),
                        reflected_power_transform |->
                            LinearTransformation_new(board_data[7], board_data[8])]
         IN  IF config.bias_voltage < -33 \/ config.bias_voltage > 0
             THEN [result |-> "Invalid", data |-> DefaultData]
             ELSE [result |-> "Ok", data |-> config]

\* BoosterChannelData::deserialize: postcard::from_bytes(..).unwrap() (a byte that is
\* not a bool is an error), then the validation of the bias voltage.
deserialize(board_data) ==
    IF board_data[4] \notin {0, 1}
    THEN [result |-> "Panic", data |-> DefaultData]
    ELSE LET config == [reflected_interlock_threshold |-> board_data[1],
                        output_interlock_threshold |-> board_data[2],
                        bias_voltage |-> board_data[3], enabled |-> board_data[4] = 1,
                        input_power_transform |->
                            LinearTransformation_new(board_data[5], board_data[6]),
                        output_power_transform |->
                            LinearTransformation_new(board_data[7], board_data[8]),
                        reflected_power_transform |->
                            LinearTransformation_new(board_data[9], board_data[10])]
         IN  IF config.bias_voltage < -33 \/ config.bias_voltage > 0
             THEN [result |-> "Invalid", data |-> DefaultData]
             ELSE [result |-> "Ok", data |-> config]

\* The weighted sum of the first n elements of the board data.
RECURSIVE WeightedSum(_, _)
WeightedSum(board_data, n) ==
    IF n = 0 THEN 11
    ELSE (2 * n - 1) * board_data[n] + WeightedSum(board_data, n - 1)

\* The checksum of the Sinara container over its board data.
Crc32(board_data) == WeightedSum(board_data, Len(board_data)) % 65521

\* SinaraConfiguration::default: a fresh container, its board data blank (the
\* last element stands for the region behind the serialized settings), its
\* checksum not yet computed.
SinaraConfiguration_default ==
    [board_data |-> <<0, 0, 0, 0, 0, 0, 0, 0, 0, 0, 0>>, crc32 |-> 0]

\* SinaraConfiguration::update_crc32
update_crc32(config) == [config EXCEPT !.crc32 = Crc32(config.board_data)]

\* SinaraConfiguration::try_deserialize: Ok exactly when the stored checksum matches.
try_deserialize(stored) == stored.crc32 = Crc32(stored.board_data)

\* A faulty save that writes the new board data under the checksum it found.
BoosterChannelSettings_save_stale_crc(s, read_ok, write_ok) ==
    IF ~read_ok THEN [s |-> s, panic |-> "eeprom read unwrap"]
    ELSE LET config == IF try_deserialize(s.eeprom) THEN s.eeprom
                       ELSE SinaraConfiguration_default
             saved == serialize_into(s.data, config)
         IN  IF ~write_ok THEN [s |-> s, panic |-> "eeprom write unwrap"]
             ELSE [s |-> [s EXCEPT !.eeprom = saved], panic |-> ""]

\* BoosterChannelSettings::save (with load_config and save_config): read the
\* container or start a fresh one, replace the board data, recompute the
\* checksum, write it back.  Either EEPROM transaction is unwrapped.
BoosterChannelSettings_save(s, read_ok, write_ok) ==
    IF ~read_ok THEN [s |-> s, panic |-> "eeprom read unwrap"]
    ELSE LET config == IF try_deserialize(s.eeprom) THEN s.eeprom
                       ELSE SinaraConfiguration_default
             saved == update_crc32(serialize_into(s.data, config))
         IN  IF ~write_ok THEN [s |-> s, panic |-> "eeprom write unwrap"]
             ELSE [s |-> [s EXCEPT !.eeprom = saved], panic |-> ""]

\* BoosterChannelSettings::new: load the container; an invalid container or an
\* invalid payload is replaced by the defaults, which are saved at once.
BoosterChannelSettings_new(eeprom, read_ok, reread_ok, write_ok) ==
    LET fallback == BoosterChannelSettings_save([eeprom |-> eeprom, data |-> DefaultData],
                                                reread_ok, write_ok)
        defaulted == [s |-> fallback.s, panic |-> fallback.panic,
                      result |-> IF fallback.panic = "" THEN "DefaultsSaved" ELSE "Panic"]
        read == deserialize(eeprom.board_data)
    IN  IF ~read_ok
        THEN [s |-> [eeprom |-> eeprom, data |-> DefaultData], panic |-> "eeprom read unwrap",
              result |-> "Panic"]
        ELSE IF ~try_deserialize(eeprom) THEN defaulted
        ELSE IF read.result = "Panic"
        THEN [s |-> [eeprom |-> eeprom, data |-> DefaultData],
              panic |-> "postcard from_bytes unwrap", result |-> "Panic"]
        ELSE IF read.result # "Ok" THEN defaulted
        ELSE [s |-> [eeprom |-> eeprom, data |-> read.data], panic |-> "", result |-> "Stored"]

\* The settings of a slot after construction on a blank or intact EEPROM that
\* holds the defaults.
DefaultSettings ==
    [data |-> DefaultData,
     eeprom |-> update_crc32(serialize_into(DefaultData, SinaraConfiguration_default))]

\* A faulty transform write that takes the slope and keeps the offset it finds.
RfChannel_set_transform_slope_only(data, id, transform) ==
    CASE id = "InputPowerTransform" ->
            [data EXCEPT !.input_power_transform.slope = transform.slope]
      [] id = "OutputPowerTransform" ->
            [data EXCEPT !.output_power_transform.slope = transform.slope]
      [] id = "ReflectedPowerTransform" ->
            [data EXCEPT !.reflected_power_transform.slope = transform.slope]

\* Property write of a power transform: the transform of the settings in RAM is
\* replaced by the one that was written.
RfChannel_set_transform(data, id, transform) ==
    CASE id = "InputPowerTransform" -> [data EXCEPT !.input_power_transform = transform]
      [] id = "OutputPowerTransform" -> [data EXCEPT !.output_power_transform = transform]
      [] id = "ReflectedPowerTransform" ->
            [data EXCEPT !.reflected_power_transform = transform]

\* The settings a channel keeps in RAM: its thresholds, its bias, whether it is
\* enabled, and the power transforms as they were loaded or last written.
RfChannel_settings(ch, data) ==
    [data EXCEPT
        !.reflected_interlock_threshold = ch.reflected_interlock_threshold,
        !.output_interlock_threshold = ch.output_interlock_threshold,
        !.bias_voltage = ch.bias_voltage,
        !.enabled = ch.enable_power /\ ch.signal_on]

\* RfChannel::save_configuration: the RAM settings are saved to the channel EEPROM.
RfChannel_save_configuration(ch, s, read_ok, write_ok) ==
    BoosterChannelSettings_save([s EXCEPT !.data = RfChannel_settings(ch, s.data)], read_ok, write_ok)

\* ChannelStatus as get_status fills it.
ChannelStatus(ch, lv) ==
    [reflected_overdrive |-> lv.input_overdrive,
     output_overdrive |-> lv.output_overdrive,
     alert |-> ~lv.alert,
     reflected_overdrive_threshold |-> get_reflected_interlock_threshold(ch),
     output_overdrive_threshold |-> get_output_interlock_threshold(ch),
     bias_voltage |-> get_bias_voltage(ch),
     state |-> get_state(ch, lv)]

\* ------------------------------------------------------- registry plumbing
\* panic handler: interrupts off, shutdown_channels, then reset or halt.
Panic(op, channel, arg, msg, chs, touched, lv) ==
    /\ channels' = shutdown_channels(chs)
    /\ pc' = "panic"
    /\ panic_msg' = msg
    /\ last' = Record(op, channel, arg, "Panic", touched, lv, channels[channel])

\* A faulty select that hands the failure back to the caller as an error.
SelectFailed_returns_error(op, channel, arg) ==
    /\ last' = Record(op, channel, arg, "Interface", FALSE, NoLevels, channels[channel])
    /\ UNCHANGED <<channels, dev, mux, pc, panic_msg>>

\* mux.select_bus(..).unwrap() on a failed select.
SelectFailed(op, channel, arg) ==
    /\ Panic(op, channel, arg, "select_bus unwrap", channels, FALSE, NoLevels)
    /\ UNCHANGED <<dev, mux>>

\* A faulty None arm that probes the slot again and installs the module it finds.
NotPresent_reprobe(op, channel, arg) ==
    /\ last' = Record(op, channel, arg, "NotPresent", FALSE, NoLevels, channels[channel])
    /\ channels' = [channels EXCEPT ![channel] = RfChannel_new.ch]
    /\ UNCHANGED <<dev, pc, panic_msg>>

\* The None arm of every per-channel operation.
NotPresent(op, channel, arg) ==
    /\ last' = Record(op, channel, arg, "NotPresent", FALSE, NoLevels, channels[channel])
    /\ UNCHANGED <<channels, dev, pc, panic_msg>>

\* The Some arm: the RfChannel method ran with outcome o.
Finish(op, channel, arg, o, lv) ==
    /\ dev' = [dev EXCEPT ![channel] = o.d]
    /\ IF o.panic # ""
       THEN Panic(op, channel, arg, o.panic, [channels EXCEPT ![channel] = o.ch], TRUE, lv)
       ELSE /\ channels' = [channels EXCEPT ![channel] = o.ch]
            /\ last' = Record(op, channel, arg, o.result, TRUE, lv, channels[channel])
            /\ UNCHANGED <<pc, panic_msg>>

\* ----------------------------------------------------------- control client
\* ControlState.id, the identifier in front of every topic of this device.
DeviceId == "booster"

\* The two control interfaces of the repository: mqtt_control.rs and
\* net/mqtt_control.rs.
ControlVersions == {"mqtt_control", "net"}

\* The topic postfixes ControlState::update subscribes to.
ControlTopics(version) ==
    IF version = "net"
    THEN {"channel/state", "channel/bias", "channel/read", "channel/write"}
    ELSE {"channel/state", "channel/tune", "channel/read", "channel/write"}

\* The routes the match of ControlState::update hands to a handler.
DispatchedRoutes(version) ==
    IF version = "net"
    THEN {"channel/state"}
    ELSE {"channel/state", "channel/tune", "channel/read", "channel/write"}

\* The error of client.poll on which update clears the subscribed flag.
LossError(version) == IF version = "net" THEN "SessionReset" ELSE "Disconnected"

\* No request waits for its response.
NoRequest == [pending |-> FALSE, response_topic |-> ""]

\* ControlState::new: not subscribed; the client has no connection yet, the
\* broker holds no subscription, nothing was published.
ControlState_new(version) ==
    [version |-> version, subscribed |-> FALSE, connection |-> "disconnected",
     subscriptions |-> {}, request |-> NoRequest, published |-> [topic |-> "", seq |-> 0]]

\* ------------------------------------------------------------------ state
NoOperation ==
    [op |-> "new", channel |-> 0, arg |-> 0, result |-> "Ok",
     touched |-> FALSE, sensed |-> NoLevels, before |-> NoChannel]

\* BoosterChannels::new has run: each slot enumerated (installed) or was left None.
Init ==
    /\ \E installed \in SUBSET Channel :
        /\ channels = [c \in Channel |-> IF c \in installed THEN RfChannel_new.ch ELSE NoChannel]
        /\ dev = [c \in Channel |-> IF c \in installed THEN RfChannel_new.d ELSE NoDevices]
    /\ settings = [c \in Channel |-> DefaultSettings]
    /\ mux = into_bus(NumChannels - 1)
    /\ pc = "idle"
    /\ cursor = 0
    /\ visited = <<>>
    /\ panic_msg = ""
    /\ last = NoOperation
    /\ client = ControlState_new("mqtt_control")

\* -------------------------------------------------------- BoosterChannels
\* A faulty enable_channel that reports success for a slot without a module.
enable_channel_ignoring_absent(channel) ==
    /\ pc = "idle"
    /\ \/ SelectFailed("enable_channel", channel, 0)
       \/ /\ mux' = into_bus(channel)
          /\ IF channels[channel].some
             THEN Finish("enable_channel", channel, 0,
                         RfChannel_enable(channels[channel], dev[channel]), NoLevels)
             ELSE /\ last' = Record("enable_channel", channel, 0, "Ok", FALSE, NoLevels,
                                    channels[channel])
                  /\ UNCHANGED <<channels, dev, pc, panic_msg>>
    /\ UNCHANGED <<settings, cursor, visited>>
    /\ UNCHANGED client

\* BoosterChannels::enable_channel
enable_channel(channel) ==
    /\ pc = "idle"
    /\ \/ SelectFailed("enable_channel", channel, 0)
       \/ /\ mux' = into_bus(channel)
          /\ IF channels[channel].some
             THEN Finish("enable_channel", channel, 0,
                         RfChannel_enable(channels[channel], dev[channel]), NoLevels)
             ELSE NotPresent("enable_channel", channel, 0)
    /\ UNCHANGED <<settings, cursor, visited>>
    /\ UNCHANGED client

\* BoosterChannels::power_channel
power_channel(channel) ==
    /\ pc = "idle"
    /\ \/ SelectFailed("power_channel", channel, 0)
       \/ /\ mux' = into_bus(channel)
          /\ IF channels[channel].some
             THEN Finish("power_channel", channel, 0,
                         RfChannel_enable(channels[channel], dev[channel]), NoLevels)
             ELSE NotPresent("power_channel", channel, 0)
    /\ UNCHANGED <<settings, cursor, visited>>
    /\ UNCHANGED client

\* BoosterChannels::disable_channel
disable_channel(channel) ==
    /\ pc = "idle"
    /\ \/ SelectFailed("disable_channel", channel, 0)
       \/ /\ mux' = into_bus(channel)
          /\ IF channels[channel].some
             THEN \E i2c_ok \in BOOLEAN :
                    Finish("disable_channel", channel, 0,
                           RfChannel_disable(channels[channel], dev[channel], i2c_ok),
                           NoLevels)
             ELSE NotPresent("disable_channel", channel, 0)
    /\ UNCHANGED <<settings, cursor, visited>>
    /\ UNCHANGED client

\* A faulty get_temperature that does not wait for exclusive access to the registry.
get_temperature_unlocked(channel) ==
    /\ pc \in {"idle", "sweep"}
    /\ \/ SelectFailed("get_temperature", channel, 0)
       \/ /\ mux' = into_bus(channel)
          /\ IF channels[channel].some
             THEN \E i2c_ok \in BOOLEAN :
                    Finish("get_temperature", channel, 0,
                           RfChannel_get_temperature(channels[channel], dev[channel], i2c_ok),
                           NoLevels)
             ELSE NotPresent("get_temperature", channel, 0)
    /\ UNCHANGED <<settings, cursor, visited>>
    /\ UNCHANGED client

\* BoosterChannels::get_temperature
get_temperature(channel) ==
    /\ pc = "idle"
    /\ \/ SelectFailed("get_temperature", channel, 0)
       \/ /\ mux' = into_bus(channel)
          /\ IF channels[channel].some
             THEN \E i2c_ok \in BOOLEAN :
                    Finish("get_temperature", channel, 0,
                           RfChannel_get_temperature(channels[channel], dev[channel], i2c_ok),
                           NoLevels)
             ELSE NotPresent("get_temperature", channel, 0)
    /\ UNCHANGED <<settings, cursor, visited>>
    /\ UNCHANGED client

\* A faulty set_bias that stores the settings in the EEPROM whenever the bias was set.
set_bias_saving(channel, bias_voltage) ==
    /\ pc = "idle"
    /\ \/ SelectFailed("set_bias", channel, bias_voltage) /\ UNCHANGED settings
       \/ /\ mux' = into_bus(channel)
          /\ IF channels[channel].some
             THEN \E i2c_ok \in BOOLEAN :
                    LET o == RfChannel_set_bias(channels[channel], dev[channel],
                                                bias_voltage, i2c_ok)
                    IN  /\ Finish("set_bias", channel, bias_voltage, o, NoLevels)
                        /\ settings' =
                              IF o.result = "Ok"
                              THEN [settings EXCEPT ![channel] =
                                      RfChannel_save_configuration(o.ch, @, TRUE, TRUE).s]
                              ELSE settings
             ELSE NotPresent("set_bias", channel, bias_voltage) /\ UNCHANGED settings
    /\ UNCHANGED <<cursor, visited>>
    /\ UNCHANGED client

\* BoosterChannels::set_bias
set_bias(channel, bias_voltage) ==
    /\ pc = "idle"
    /\ \/ SelectFailed("set_bias", channel, bias_voltage)
       \/ /\ mux' = into_bus(channel)
          /\ IF channels[channel].some
             THEN \E i2c_ok \in BOOLEAN :
                    Finish("set_bias", channel, bias_voltage,
                           RfChannel_set_bias(channels[channel], dev[channel],
                                              bias_voltage, i2c_ok), NoLevels)
             ELSE NotPresent("set_bias", channel, bias_voltage)
    /\ UNCHANGED <<settings, cursor, visited>>
    /\ UNCHANGED client

\* BoosterChannels::tune_channel
tune_channel(channel) ==
    /\ pc = "idle"
    /\ \/ SelectFailed("tune_channel", channel, 0)
       \/ /\ mux' = into_bus(channel)
          /\ IF channels[channel].some
             THEN \E i2c_ok \in BOOLEAN, v \in TuneChoices :
                    Finish("tune_channel", channel, 0,
                           RfChannel_tune_bias(channels[channel], dev[channel], v, i2c_ok),
                           NoLevels)
             ELSE NotPresent("tune_channel", channel, 0)
    /\ UNCHANGED <<settings, cursor, visited>>
    /\ UNCHANGED client

\* BoosterChannels::get_channel_state
get_channel_state(channel) ==
    /\ pc = "idle"
    /\ \/ SelectFailed("get_channel_state", channel, 0)
       \/ /\ mux' = into_bus(channel)
          /\ IF channels[channel].some
             THEN \E lv \in SenseInputs :
                    Finish("get_channel_state", channel, 0,
                           Outcome(channels[channel], dev[channel],
                                   get_state(channels[channel], lv), ""), lv)
             ELSE NotPresent("get_channel_state", channel, 0)
    /\ UNCHANGED <<settings, cursor, visited>>
    /\ UNCHANGED client

\* BoosterChannels::get_status
get_status(channel) ==
    /\ pc = "idle"
    /\ \/ SelectFailed("get_status", channel, 0)
       \/ /\ mux' = into_bus(channel)
          /\ IF channels[channel].some
             THEN \E failed \in 0 .. 3 :
                    \E lv \in (IF failed = 0 THEN SenseInputs ELSE {NoLevels}) :
                      LET ch == channels[channel]
                          d == dev[channel]
                          m == RfChannel_get_power_measurements(ch, d, failed # 1)
                          t == RfChannel_get_temperature(ch, d, failed # 2)
                          p == RfChannel_get_input_power(ch, d, failed # 3)
                      IN  Finish("get_status", channel, 0,
                                 IF m.panic # "" THEN m
                                 ELSE IF t.panic # "" THEN t
                                 ELSE IF p.panic # "" THEN p
                                 ELSE Outcome(ch, d, ChannelStatus(ch, lv), ""), lv)
             ELSE NotPresent("get_status", channel, 0)
    /\ UNCHANGED <<settings, cursor, visited>>
    /\ UNCHANGED client

\* BoosterChannels::save_configuration
save_configuration(channel) ==
    /\ pc = "idle"
    /\ \/ SelectFailed("save_configuration", channel, 0) /\ UNCHANGED settings
       \/ /\ mux' = into_bus(channel)
          /\ IF channels[channel].some
             THEN \E read_ok \in BOOLEAN, write_ok \in BOOLEAN :
                    LET saved == RfChannel_save_configuration(channels[channel],
                                     settings[channel], read_ok, write_ok)
                    IN  /\ Finish("save_configuration", channel, 0,
                                  Outcome(channels[channel], dev[channel],
                                          IF saved.panic = "" THEN "Ok" ELSE "Panic",
                                          saved.panic), NoLevels)
                        /\ settings' = [settings EXCEPT ![channel] = saved.s]
             ELSE NotPresent("save_configuration", channel, 0) /\ UNCHANGED settings
    /\ UNCHANGED <<cursor, visited>>
    /\ UNCHANGED client

\* BoosterChannels::read_property
read_property(channel, property) ==
    /\ pc = "idle"
    /\ \/ SelectFailed("read_property", channel, 0)
       \/ /\ mux' = into_bus(channel)
          /\ IF channels[channel].some
             THEN Finish("read_property", channel, 0,
                         Outcome(channels[channel], dev[channel],
                                 RfChannel_get_property(channels[channel], settings[channel].data,
                                                        property), ""),
                         NoLevels)
             ELSE NotPresent("read_property", channel, 0)
    /\ UNCHANGED <<settings, cursor, visited>>
    /\ UNCHANGED client

\* BoosterChannels::write_property
write_property(channel, property) ==
    /\ pc = "idle"
    /\ \/ SelectFailed("write_property", channel, 0) /\ UNCHANGED settings
       \/ /\ mux' = into_bus(channel)
          /\ IF ~channels[channel].some
             THEN NotPresent("write_property", channel, 0) /\ UNCHANGED settings
             ELSE IF property.id = "InterlockThresholds"
             THEN /\ \E ok_a \in BOOLEAN, ok_b \in BOOLEAN :
                       Finish("write_property", channel,
                              [output |-> property.value[1], reflected |-> property.value[2],
                               ok_a |-> ok_a, ok_b |-> ok_b],
                              RfChannel_set_property(channels[channel], dev[channel],
                                                     property.value, ok_a, ok_b), NoLevels)
                  /\ UNCHANGED settings
             ELSE /\ Finish("write_property", channel,
                            [id |-> property.id, slope |-> property.value[1],
                             offset |-> property.value[2]],
                            Outcome(channels[channel], dev[channel], "Ok", ""), NoLevels)
                  /\ settings' = [settings EXCEPT ![channel].data =
                                    RfChannel_set_transform(@, property.id,
                                        LinearTransformation_new(property.value[1],
                                                                 property.value[2]))]
    /\ UNCHANGED <<cursor, visited>>
    /\ UNCHANGED client

\* BoosterChannels::update, entry: the sweep starts at the first slot.
update_start ==
    /\ pc = "idle"
    /\ pc' = "sweep"
    /\ cursor' = 0
    /\ visited' = <<>>
    /\ last' = [NoOperation EXCEPT !.op = "update"]
    /\ UNCHANGED <<channels, dev, settings, mux, panic_msg>>
    /\ UNCHANGED client

\* BoosterChannels::update, loop body: select the slot's bus, update a present channel.
update_visit ==
    /\ pc = "sweep"
    /\ cursor < NumChannels
    /\ LET channel == cursor IN
       \/ SelectFailed("update", channel, 0) /\ UNCHANGED <<cursor, visited>>
       \/ /\ mux' = into_bus(channel)
          /\ IF ~channels[channel].some
             THEN /\ last' = Record("update", channel, 0, "Skipped", FALSE, NoLevels,
                                    channels[channel])
                  /\ cursor' = cursor + 1
                  /\ UNCHANGED <<channels, dev, pc, panic_msg, visited>>
             ELSE \E lv \in SenseInputs, dev_ok \in BOOLEAN, i2c_ok \in BOOLEAN :
                    LET o == RfChannel_update(channels[channel], dev[channel],
                                              lv, dev_ok, i2c_ok)
                    IN  /\ visited' = Append(visited, channel)
                        /\ IF o.panic = "" /\ o.result # "Ok"
                           THEN \* rf_channel.update().unwrap() on an Err
                                /\ Panic("update", channel, 0, "update unwrap",
                                         [channels EXCEPT ![channel] = o.ch], TRUE, lv)
                                /\ dev' = [dev EXCEPT ![channel] = o.d]
                                /\ UNCHANGED cursor
                           ELSE /\ Finish("update", channel, 0, o, lv)
                                /\ cursor' = IF o.panic = "" THEN cursor + 1 ELSE cursor
    /\ UNCHANGED settings
    /\ UNCHANGED client

\* BoosterChannels::update, exit: the loop ran over every slot.
update_return ==
    /\ pc = "sweep"
    /\ cursor = NumChannels
    /\ pc' = "idle"
    /\ UNCHANGED <<channels, dev, settings, mux, cursor, visited, panic_msg, last>>
    /\ UNCHANGED client

Next ==
    \/ \E channel \in Channel : enable_channel(channel)
    \/ \E channel \in Channel : power_channel(channel)
    \/ \E channel \in Channel : disable_channel(channel)
    \/ \E channel \in Channel : get_temperature(channel)
    \/ \E channel \in Channel, v \in BiasInputs : set_bias(channel, v)
    \/ \E channel \in Channel : tune_channel(channel)
    \/ \E channel \in Channel : get_channel_state(channel)
    \/ \E channel \in Channel : get_status(channel)
    \/ \E channel \in Channel : save_configuration(channel)
    \/ \E channel \in Channel, id \in PropertyId : read_property(channel, id)
    \/ \E channel \in Channel, p \in ThresholdInputs :
          write_property(channel, [id |-> "InterlockThresholds", value |-> p])
    \/ update_start
    \/ update_visit
    \/ update_return

Spec == Init /\ [][Next]_vars

\* ------------------------------------------------------- settings study
\* The slot whose settings store is studied.
StudyChannel == 0

\* Board data another writer may leave in the EEPROM under a good checksum: a
\* byte that is no bool, a bias voltage out of range, a valid payload, and a
\* valid payload with data behind it.
ForeignBoardData ==
    LET stored == DefaultSettings.eeprom.board_data
    IN  {[stored EXCEPT ![1] = 0, ![2] = 0, ![3] = -16, ![4] = 2],
         [stored EXCEPT ![1] = 0, ![2] = 0, ![3] = 5],
         [stored EXCEPT ![1] = 100, ![2] = 200, ![3] = -16],
         [stored EXCEPT ![1] = 100, ![2] = 200, ![3] = -16, ![11] = 7]}

\* Bias voltages set before a save: nominal, zero, above range.
SettingsBiasInputs == {-16, 0, 1}

\* The stored checksum is corrupted.
corrupt_checksum ==
    /\ pc = "idle"
    /\ try_deserialize(settings[StudyChannel].eeprom)
    /\ settings' = [settings EXCEPT
                      ![StudyChannel].eeprom.crc32 = (@ + 1) % 65521]
    /\ last' = Record("corrupt_checksum", StudyChannel, 0, "Ok", FALSE, NoLevels,
                      channels[StudyChannel])
    /\ UNCHANGED <<channels, dev, mux, pc, cursor, visited, panic_msg>>
    /\ UNCHANGED client

\* The EEPROM is rewritten from outside, checksum included.
rewrite_eeprom ==
    /\ pc = "idle"
    /\ \E board_data \in ForeignBoardData :
         settings' = [settings EXCEPT
                        ![StudyChannel].eeprom =
                            update_crc32([@ EXCEPT !.board_data = board_data])]
    /\ last' = Record("rewrite_eeprom", StudyChannel, 0, "Ok", FALSE, NoLevels,
                      channels[StudyChannel])
    /\ UNCHANGED <<channels, dev, mux, pc, cursor, visited, panic_msg>>
    /\ UNCHANGED client

\* A reboot as the settings of the studied slot see it: BoosterChannelSettings::new
\* on the slot's EEPROM, its bus selected.  The record keeps the container that
\* was found and whether the step before was a save, or a load that healed a
\* bad checksum.
load_settings ==
    /\ pc = "idle"
    /\ channels[StudyChannel].some
    /\ mux' = into_bus(StudyChannel)
    /\ \E read_ok \in BOOLEAN, reread_ok \in BOOLEAN, write_ok \in BOOLEAN :
         LET loaded == BoosterChannelSettings_new(settings[StudyChannel].eeprom,
                                                  read_ok, reread_ok, write_ok)
             found == [eeprom |-> settings[StudyChannel].eeprom,
                       after_save |-> last.op = "save_configuration"
                                        /\ last.channel = StudyChannel
                                        /\ last.result = "Ok",
                       after_heal |-> last.op = "load_settings"
                                        /\ last.result = "DefaultsSaved"
                                        /\ ~try_deserialize(last.arg.eeprom)]
         IN  /\ settings' = [settings EXCEPT ![StudyChannel] = loaded.s]
             /\ IF loaded.panic # ""
                THEN Panic("load_settings", StudyChannel, found, loaded.panic, channels,
                           TRUE, NoLevels)
                ELSE /\ last' = Record("load_settings", StudyChannel, found, loaded.result,
                                       TRUE, NoLevels, channels[StudyChannel])
                     /\ UNCHANGED <<channels, pc, panic_msg>>
    /\ UNCHANGED <<dev, cursor, visited>>
    /\ UNCHANGED client

SettingsNext ==
    \/ corrupt_checksum
    \/ rewrite_eeprom
    \/ load_settings
    \/ \E v \in SettingsBiasInputs : set_bias(StudyChannel, v)
    \/ save_configuration(StudyChannel)

SettingsSpec == Init /\ [][SettingsNext]_vars

\* ----------------------------------------------------------- codec study
\* Settings values put through the codec: thresholds without and with a value,
\* a bias voltage below, at the ends of, inside and above the valid range,
\* either state, the default transforms and three transforms apart from them.
CodecInputs ==
    {[reflected_interlock_threshold |-> r, output_interlock_threshold |-> o,
      bias_voltage |-> b, enabled |-> e,
      input_power_transform |-> t[1], output_power_transform |-> t[2],
      reflected_power_transform |-> t[3]] :
        r \in {NaN, 100}, o \in {NaN, 200}, b \in {-34, -33, -32, 0, 1}, e \in BOOLEAN,
        t \in {<<DefaultData.input_power_transform, DefaultData.output_power_transform,
                 DefaultData.reflected_power_transform>>,
               <<LinearTransformation_new(20, 1), LinearTransformation_new(21, 2),
                 LinearTransformation_new(22, 3)>>}}

\* A settings value in RAM and a fresh container to serialize it into.
CodecInit ==
    /\ channels = [c \in Channel |-> RfChannel_new.ch]
    /\ dev = [c \in Channel |-> RfChannel_new.d]
    /\ \E data \in CodecInputs :
         settings = [c \in Channel |->
                        IF c = StudyChannel
                        THEN [data |-> data, eeprom |-> SinaraConfiguration_default]
                        ELSE DefaultSettings]
    /\ mux = into_bus(NumChannels - 1)
    /\ pc = "idle"
    /\ cursor = 0
    /\ visited = <<>>
    /\ panic_msg = ""
    /\ last = NoOperation
    /\ client = ControlState_new("mqtt_control")

\* BoosterChannelData::serialize_into on the settings in RAM.
codec_serialize ==
    /\ pc = "idle"
    /\ last.op = "new"
    /\ settings' = [settings EXCEPT ![StudyChannel].eeprom =
                      serialize_into(settings[StudyChannel].data, @)]
    /\ last' = Record("serialize_into", StudyChannel, settings[StudyChannel].data, "Ok",
                      FALSE, NoLevels, channels[StudyChannel])
    /\ UNCHANGED <<channels, dev, mux, pc, cursor, visited, panic_msg>>
    /\ UNCHANGED client

\* BoosterChannelData::deserialize on the board data just written; the record
\* keeps the settings that were serialized and what came back.
codec_deserialize ==
    /\ pc = "idle"
    /\ last.op = "serialize_into"
    /\ LET read == deserialize(settings[StudyChannel].eeprom.board_data)
       IN  IF read.result = "Panic"
           THEN Panic("deserialize", StudyChannel, last.arg, "postcard from_bytes unwrap",
                      channels, FALSE, NoLevels)
           ELSE /\ last' = Record("deserialize", StudyChannel, last.arg, read, FALSE,
                                  NoLevels, channels[StudyChannel])
                /\ UNCHANGED <<channels, pc, panic_msg>>
    /\ UNCHANGED <<dev, settings, mux, cursor, visited>>
    /\ UNCHANGED client

CodecNext ==
    \/ codec_serialize
    \/ codec_deserialize

CodecSpec == CodecInit /\ [][CodecNext]_vars

\* ----------------------------------------------------- linear transform study
\* LinearTransformation, apply: y = scale * x + offset.
LinearTransformation_apply(t, x) == t.slope * x + t.offset

\* A faulty inverse that divides before it takes the offset off.
LinearTransformation_inverse_offset_last(t, v) == (v \div t.slope) - t.offset

\* LinearTransformation, inverse: (value - offset) / scale.
LinearTransformation_inverse(t, v) == (v - t.offset) \div t.slope

\* Transforms put through the study: the slopes and offsets of the defaults,
\* and others of either sign; no slope is zero.
LinearInputs ==
    {LinearTransformation_new(slope, offset) :
        slope \in {-15, -1, 1, 10, 15}, offset \in {-267, -58, 0, 5}}

\* Raw readings the transforms are applied to.
RawInputs == {-20, -1, 0, 1, 7, 25}

\* A channel whose input-power transform is one of the transforms studied.
LinearInit ==
    /\ channels = [c \in Channel |-> RfChannel_new.ch]
    /\ dev = [c \in Channel |-> RfChannel_new.d]
    /\ \E t \in LinearInputs :
         settings = [c \in Channel |->
                        IF c = StudyChannel
                        THEN [DefaultSettings EXCEPT !.data.input_power_transform = t]
                        ELSE DefaultSettings]
    /\ mux = into_bus(NumChannels - 1)
    /\ pc = "idle"
    /\ cursor = 0
    /\ visited = <<>>
    /\ panic_msg = ""
    /\ last = NoOperation
    /\ client = ControlState_new("mqtt_control")

\* The transform is applied to a raw reading.
linear_apply(x) ==
    /\ pc = "idle"
    /\ last.op = "new"
    /\ last' = Record("apply", StudyChannel, x,
                      LinearTransformation_apply(
                          settings[StudyChannel].data.input_power_transform, x),
                      FALSE, NoLevels, channels[StudyChannel])
    /\ UNCHANGED <<channels, dev, settings, mux, pc, cursor, visited, panic_msg>>
    /\ UNCHANGED client

\* The value just computed is mapped back; the record keeps the raw reading.
linear_inverse ==
    /\ pc = "idle"
    /\ last.op = "apply"
    /\ last' = Record("inverse", StudyChannel, last.arg,
                      LinearTransformation_inverse(
                          settings[StudyChannel].data.input_power_transform, last.result),
                      FALSE, NoLevels, channels[StudyChannel])
    /\ UNCHANGED <<channels, dev, settings, mux, pc, cursor, visited, panic_msg>>
    /\ UNCHANGED client

LinearNext ==
    \/ \E x \in RawInputs : linear_apply(x)
    \/ linear_inverse

LinearSpec == LinearInit /\ [][LinearNext]_vars

\* ------------------------------------------------------- control interface
\* One character of a JSON text: a punctuation mark or a name as it stands, a
\* number as the run of its digits ("0") with its value.
Chr(c) == [chr |-> c, num |-> 0]

Number(n) == [chr |-> "0", num |-> n]

\* The field names of a property: InterlockThresholds or a LinearTransformation.
FieldNames(prop) ==
    IF prop = "InterlockThresholds" THEN <<"output", "reflected">> ELSE <<"slope", "offset">>

\* serde_json_core::to_string of a property value, a struct of two numbers.
to_string(prop, value) ==
    <<Chr("{"), Chr("\""), Chr(FieldNames(prop)[1]), Chr("\""), Chr(":"), Number(value[1]),
      Chr(","), Chr("\""), Chr(FieldNames(prop)[2]), Chr("\""), Chr(":"), Number(value[2]),
      Chr("}")>>

\* serde_json_core::from_str of a property value: the text has to be the struct,
\* its names in double quotes.
from_str(prop, data) ==
    IF /\ Len(data) = Len(to_string(prop, <<0, 0>>))
       /\ \A i \in 1 .. Len(data) : data[i].chr = to_string(prop, <<0, 0>>)[i].chr
    THEN [ok |-> TRUE, value |-> <<data[6].num, data[12].num>>]
    ELSE [ok |-> FALSE, value |-> <<0, 0>>]

\* PropertyReadResponse::okay, the loop: each double quote becomes an apostrophe.
double_to_single(data) ==
    [i \in 1 .. Len(data) |-> IF data[i].chr = "\"" THEN Chr("'") ELSE data[i]]

\* A faulty substitution that stops after the first apostrophe it has replaced.
single_to_double_first_only(data) ==
    [i \in 1 .. Len(data) |->
        IF data[i].chr = "'" /\ \A j \in 1 .. (i - 1) : data[j].chr # "'"
        THEN Chr("\"") ELSE data[i]]

\* PropertyWriteRequest::property, the loop: each apostrophe becomes a double quote.
single_to_double(data) ==
    [i \in 1 .. Len(data) |-> IF data[i].chr = "'" THEN Chr("\"") ELSE data[i]]

\* PropertyReadResponse::okay
PropertyReadResponse_okay(prop, value) ==
    [code |-> 200, data |-> double_to_single(to_string(prop, value))]

\* PropertyWriteRequest::property
PropertyWriteRequest_property(prop, data) == from_str(prop, single_to_double(data))

\* Response::okay
Response_okay(msg) == [code |-> 200, msg |-> msg]

\* Response::error_msg
Response_error_msg(msg) == [code |-> 400, msg |-> msg]

\* Response::error
Response_error(error) == [code |-> 400, msg |-> error]

\* enum ChannelAction
ChannelAction == {"Enable", "Disable", "Powerup", "Save"}

\* Channel fields of the requests: the first slot, and an index that names no slot.
RequestChannels == {0, NumChannels}

\* Thresholds (output, reflected) of the property-write requests.
RequestThresholds == {<<100, 200>>}

\* Channel requests: the four actions and one that is none of them.
ChannelRequestMessages == [channel : RequestChannels, action : ChannelAction \cup {"Reset"}]

\* Tune requests: a current, or a text that is no number.
ChannelTuneRequestMessages == [channel : RequestChannels, current : {"0.05", "high"}]

\* Property read requests: two properties and a name that is none.
PropertyReadRequestMessages ==
    [channel : RequestChannels, prop : {"InterlockThresholds", "OutputPowerTransform", "Gain"}]

\* Property write requests: the data as a read response carries it, or cut short.
PropertyWriteRequestMessages ==
    [channel : RequestChannels, prop : {"InterlockThresholds", "Gain"},
     data : {PropertyReadResponse_okay("InterlockThresholds", v).data : v \in RequestThresholds}
            \cup {<<Chr("{"), Chr("'"), Chr("output"), Chr("'"), Chr(":"), Number(100), Chr("}")>>}]

\* The messages a route can carry.
Messages(route) ==
    CASE route = "channel/state" -> ChannelRequestMessages
      [] route = "channel/tune" -> ChannelTuneRequestMessages
      [] route = "channel/read" -> PropertyReadRequestMessages
      [] route = "channel/write" -> PropertyWriteRequestMessages
      [] OTHER -> {[channel |-> 0, action |-> "Enable"]}

Routes == {"channel/state", "channel/tune", "channel/read", "channel/write", "channel/reset"}

\* serde_json_core::from_slice::<ChannelRequest> succeeds.
from_slice_ChannelRequest(message) ==
    message.channel \in Channel /\ message.action \in ChannelAction

\* serde_json_core::from_slice::<ChannelTuneRequest> succeeds.
from_slice_ChannelTuneRequest(message) ==
    message.channel \in Channel /\ message.current = "0.05"

\* serde_json_core::from_slice::<PropertyReadRequest> succeeds.
from_slice_PropertyReadRequest(message) ==
    message.channel \in Channel /\ message.prop \in PropertyId

\* serde_json_core::from_slice::<PropertyWriteRequest> succeeds.
from_slice_PropertyWriteRequest(message) ==
    message.channel \in Channel /\ message.prop \in PropertyId

\* The closure of client.poll is called with a message on a route of this
\* device: the message waits for its handler.
received(route, message) ==
    /\ pc = "idle"
    /\ last.op # "poll"
    /\ last' = Record("poll", 0, [route |-> route, message |-> message], "Pending",
                      FALSE, NoLevels, channels[0])
    /\ UNCHANGED <<channels, dev, settings, mux, pc, cursor, visited, panic_msg>>

\* client.poll: a message has arrived on a route of this device and waits for
\* its handler; the connection and the subscriptions are left aside.
poll(route, message) ==
    /\ received(route, message)
    /\ UNCHANGED client

\* A faulty early return that leaves the multiplexer on the bus of the first slot.
Respond_selecting_bus(op, message, response) ==
    /\ last' = Record(op, 0, message, response, FALSE, NoLevels, channels[0])
    /\ mux' = into_bus(0)
    /\ UNCHANGED <<channels, dev, settings, pc, cursor, visited, panic_msg>>
    /\ UNCHANGED client

\* A handler returns its response without having called the registry.
Respond(op, message, response) ==
    /\ last' = Record(op, 0, message, response, FALSE, NoLevels, channels[0])
    /\ UNCHANGED <<channels, dev, settings, mux, pc, cursor, visited, panic_msg>>
    /\ UNCHANGED client

\* handle_channel_update
handle_channel_update ==
    /\ last.op = "poll"
    /\ last.arg.route = "channel/state"
    /\ LET message == last.arg.message
       IN  IF ~from_slice_ChannelRequest(message)
           THEN Respond("handle_channel_update", message,
                        Response_error_msg("Failed to decode data"))
           ELSE CASE message.action = "Enable" -> enable_channel(message.channel)
                  [] message.action = "Disable" -> disable_channel(message.channel)
                  [] message.action = "Powerup" -> power_channel(message.channel)
                  [] message.action = "Save" -> save_configuration(message.channel)

\* handle_channel_tune
handle_channel_tune ==
    /\ last.op = "poll"
    /\ last.arg.route = "channel/tune"
    /\ LET message == last.arg.message
       IN  IF ~from_slice_ChannelTuneRequest(message)
           THEN Respond("handle_channel_tune", message,
                        Response_error_msg("Failed to decode data"))
           ELSE tune_channel(message.channel)

\* handle_channel_property_read
handle_channel_property_read ==
    /\ last.op = "poll"
    /\ last.arg.route = "channel/read"
    /\ LET message == last.arg.message
       IN  IF ~from_slice_PropertyReadRequest(message)
           THEN Respond("handle_channel_property_read", message,
                        Response_error_msg("Failed to decode read request"))
           ELSE read_property(message.channel, message.prop)

\* handle_channel_property_write
handle_channel_property_write ==
    /\ last.op = "poll"
    /\ last.arg.route = "channel/write"
    /\ LET message == last.arg.message
           property == PropertyWriteRequest_property(message.prop, message.data)
       IN  IF ~from_slice_PropertyWriteRequest(message)
           THEN Respond("handle_channel_property_write", message,
                        Response_error_msg("Failed to decode read request"))
           ELSE IF ~property.ok
           THEN Respond("handle_channel_property_write", message,
                        Response_error_msg("Failed to decode property"))
           ELSE write_property(message.channel, [id |-> message.prop, value |-> property.value])

\* ControlState::update, the arm of a route no handler serves.
unexpected_topic ==
    /\ last.op = "poll"
    /\ last.arg.route \notin {"channel/state", "channel/tune", "channel/read", "channel/write"}
    /\ Respond("update", last.arg.message, Response_error_msg("Unexpected topic"))

MqttNext ==
    \/ \E route \in Routes : \E message \in Messages(route) : poll(route, message)
    \/ handle_channel_update
    \/ handle_channel_tune
    \/ handle_channel_property_read
    \/ handle_channel_property_write
    \/ unexpected_topic

MqttSpec == Init /\ [][MqttNext]_vars

\* ------------------------------------------------------- control client
\* The topic the responses go to when the request names none.
LogTopic == "booster/log"

\* A faulty first part of update that sets the flag without asking whether the
\* client is connected.
subscribe_topics_unconnected(cl) ==
    IF ~cl.subscribed
    THEN [cl EXCEPT !.subscribed = TRUE,
                    !.subscriptions = IF cl.connection = "connected"
                                      THEN @ \cup ControlTopics(cl.version) ELSE @]
    ELSE cl

\* ControlState::update, the first part: a client that is not subscribed and is
\* connected subscribes to every control topic, then the flag is set.
subscribe_topics(cl) ==
    IF ~cl.subscribed /\ cl.connection = "connected"
    THEN [cl EXCEPT !.subscriptions = @ \cup ControlTopics(cl.version), !.subscribed = TRUE]
    ELSE cl

\* The identifiers in front of the topics that arrive: this device and another.
TopicIds == {DeviceId, "other"}

\* The routes of the messages that arrive: the control topics of both
\* interfaces and one that is none.
ControlRoutes ==
    {"channel/state", "channel/tune", "channel/bias", "channel/read", "channel/write",
     "channel/reset"}

\* The ResponseTopic property of a message ("": the message has none).
ResponseTopics == {"", "reply"}

\* The errors client.poll returns.
PollErrors == {"Disconnected", "SessionReset", "Network"}

\* One well-formed request for each route.
ControlMessage(route) ==
    CASE route = "channel/tune" -> [channel |-> 0, current |-> "0.05"]
      [] route = "channel/bias" -> [channel |-> 0, current |-> "0.05"]
      [] route = "channel/read" -> [channel |-> 0, prop |-> "InterlockThresholds"]
      [] route = "channel/write" ->
            [channel |-> 0, prop |-> "InterlockThresholds",
             data |-> PropertyReadResponse_okay("InterlockThresholds", <<100, 200>>).data]
      [] OTHER -> [channel |-> 0, action |-> "Save"]

\* The registry with at most the first slot installed, and a control interface
\* of either version that has just been constructed.
ControlInit ==
    /\ \E installed \in {{}, {0}} :
        /\ channels = [c \in Channel |-> IF c \in installed THEN RfChannel_new.ch ELSE NoChannel]
        /\ dev = [c \in Channel |-> IF c \in installed THEN RfChannel_new.d ELSE NoDevices]
    /\ settings = [c \in Channel |-> DefaultSettings]
    /\ mux = into_bus(NumChannels - 1)
    /\ pc = "idle"
    /\ cursor = 0
    /\ visited = <<>>
    /\ panic_msg = ""
    /\ last = NoOperation
    /\ \E version \in ControlVersions : client = ControlState_new(version)

\* The broker or the network drops the connection between two calls of update:
\* the subscriptions of the session are gone, the client has not noticed yet.
connection_lost ==
    /\ pc = "idle"
    /\ last.op # "poll"
    /\ ~client.request.pending
    /\ client.connection = "connected"
    /\ client' = [client EXCEPT !.connection = "lost", !.subscriptions = {}]
    /\ UNCHANGED <<channels, dev, settings, mux, pc, cursor, visited, panic_msg, last>>

\* update: client.poll returns Ok without a message; a client without a
\* connection has connected.
update_idle_client ==
    /\ pc = "idle"
    /\ last.op # "poll"
    /\ ~client.request.pending
    /\ client.connection # "lost"
    /\ client' = [subscribe_topics(client) EXCEPT !.connection = "connected"]

update_idle ==
    /\ update_idle_client
    /\ UNCHANGED <<channels, dev, settings, mux, pc, cursor, visited, panic_msg, last>>

\* update: client.poll returns an error. The error of a lost connection or
\* session is the one the client reports for a connection that was lost; on
\* the arm of that error the flag is cleared, every other error is logged.
update_error_client(e) ==
    /\ pc = "idle"
    /\ last.op # "poll"
    /\ ~client.request.pending
    /\ IF e = LossError(client.version)
       THEN client.connection = "lost"
       ELSE e = "Network" /\ client.connection # "lost"
    /\ client' = [subscribe_topics(client) EXCEPT
                    !.subscribed = IF e = LossError(client.version) THEN FALSE ELSE @,
                    !.connection = IF e = LossError(client.version)
                                   THEN "disconnected" ELSE @]

update_error(e) ==
    /\ update_error_client(e)
    /\ UNCHANGED <<channels, dev, settings, mux, pc, cursor, visited, panic_msg, last>>

\* A faulty closure that answers the message of another identifier on the log
\* topic.
update_message_any_id(id, route, message, response_topic) ==
    /\ client.connection = "connected"
    /\ ~client.request.pending
    /\ IF id # DeviceId
       THEN /\ pc = "idle"
            /\ last.op # "poll"
            /\ last' = Record("ignore", 0, [id |-> id, route |-> route, message |-> message],
                              "Ignored", FALSE, NoLevels, channels[0])
            /\ client' = [subscribe_topics(client) EXCEPT
                            !.published = [topic |-> LogTopic, seq |-> 1 - @.seq]]
            /\ UNCHANGED <<channels, dev, settings, mux, pc, cursor, visited, panic_msg>>
       ELSE /\ received(route, message)
            /\ client' = [subscribe_topics(client) EXCEPT
                            !.request = [pending |-> TRUE, response_topic |-> response_topic]]

\* update: client.poll calls the closure with a message. A topic of another
\* identifier is ignored; a message of this device waits for its handler and
\* its response.
update_message(id, route, message, response_topic) ==
    /\ client.connection = "connected"
    /\ ~client.request.pending
    /\ IF id # DeviceId
       THEN /\ pc = "idle"
            /\ last.op # "poll"
            /\ last' = Record("ignore", 0, [id |-> id, route |-> route, message |-> message],
                              "Ignored", FALSE, NoLevels, channels[0])
            /\ client' = subscribe_topics(client)
            /\ UNCHANGED <<channels, dev, settings, mux, pc, cursor, visited, panic_msg>>
       ELSE /\ received(route, message)
            /\ client' = [subscribe_topics(client) EXCEPT
                            !.request = [pending |-> TRUE, response_topic |-> response_topic]]

\* update, the match on the route: the handler of the route, or the error
\* response of a route no arm names.
dispatch ==
    /\ client.request.pending
    /\ last.op = "poll"
    /\ IF last.arg.route \in DispatchedRoutes(client.version)
       THEN \/ handle_channel_update
            \/ handle_channel_tune
            \/ handle_channel_property_read
            \/ handle_channel_property_write
       ELSE Respond("update", last.arg.message, Response_error_msg("Unexpected topic"))

\* A faulty publish that sends every response to the log topic.
publish_to_log ==
    /\ pc = "idle"
    /\ last.op # "poll"
    /\ client.request.pending
    /\ client' = [client EXCEPT !.request = NoRequest,
                                !.published = [topic |-> LogTopic, seq |-> 1 - @.seq]]
    /\ UNCHANGED <<channels, dev, settings, mux, pc, cursor, visited, panic_msg, last>>

\* update, the end of the closure: the response is published to the
\* ResponseTopic of the request, or to the log topic when it has none.
publish ==
    /\ pc = "idle"
    /\ last.op # "poll"
    /\ client.request.pending
    /\ client' = [client EXCEPT
                    !.request = NoRequest,
                    !.published = [topic |-> IF client.request.response_topic # ""
                                             THEN client.request.response_topic
                                             ELSE LogTopic,
                                   seq |-> 1 - @.seq]]
    /\ UNCHANGED <<channels, dev, settings, mux, pc, cursor, visited, panic_msg, last>>

ControlNext ==
    \/ connection_lost
    \/ update_idle
    \/ \E e \in PollErrors : update_error(e)
    \/ \E id \in TopicIds, route \in ControlRoutes, response_topic \in ResponseTopics :
          update_message(id, route, ControlMessage(route), response_topic)
    \/ dispatch
    \/ publish

ControlSpec == ControlInit /\ [][ControlNext]_vars

\* The idle loop calls update again and again: while a call of update can
\* change the client, in the end one does.
LiveControlSpec ==
    /\ ControlSpec
    /\ WF_client(update_idle_client)
    /\ WF_client(\E e \in PollErrors : update_error_client(e))

\* ------------------------------------------------------ transform study
\* The power transforms a property can name.
TransformId == PropertyId \ {"InterlockThresholds"}

\* Transforms (slope, offset) of the property-write requests.
RequestTransforms == {<<20, -300>>, <<12, 5>>}

\* Property writes of a transform: the data as a read response carries it, or
\* cut short behind the slope.
TransformWriteRequestMessages ==
    [channel : RequestChannels, prop : TransformId,
     data : {PropertyReadResponse_okay("OutputPowerTransform", v).data :
                v \in RequestTransforms}
            \cup {<<Chr("{"), Chr("'"), Chr("slope"), Chr("'"), Chr(":"), Number(20), Chr("}")>>}]

\* The control interface under property writes of transforms and thresholds,
\* property reads and bias tuning.
TransformNext ==
    \/ \E message \in TransformWriteRequestMessages \cup PropertyWriteRequestMessages :
          poll("channel/write", message)
    \/ \E message \in [channel : {0}, prop : PropertyId] : poll("channel/read", message)
    \/ \E message \in ChannelTuneRequestMessages : poll("channel/tune", message)
    \/ handle_channel_property_write
    \/ handle_channel_property_read
    \/ handle_channel_tune

TransformSpec == Init /\ [][TransformNext]_vars

\* ------------------------------------------------------ threshold study
\* The registry under threshold writes over the wider inputs, with the reads
\* that report the thresholds.
ThresholdNext ==
    \/ \E channel \in Channel, p \in WideThresholdInputs :
          write_property(channel, [id |-> "InterlockThresholds", value |-> p])
    \/ \E channel \in Channel, id \in PropertyId : read_property(channel, id)
    \/ \E channel \in Channel : get_status(channel)

ThresholdSpec == Init /\ [][ThresholdNext]_vars

\* ----------------------------------------------------------- enumeration
\* The devices of a slot that sit on the mainboard, and those on the RF module.
MainboardDevices == {"bias_dac", "power_monitor"}

ModuleDevices ==
    {"interlock_thresholds_dac", "eui48", "temperature_monitor", "input_power_adc"}

\* What the probe of one slot can meet: a failed bus select, a device that does
\* not answer when Devices::new probes it, a device that fails when
\* RfChannel::new configures it, or a working module.
ProbeOutcomes ==
    {[device |-> "mux", step |-> "select"], [device |-> "none", step |-> "done"]}
    \cup [device : MainboardDevices \cup ModuleDevices, step : {"probe"}]
    \cup [device : {"interlock_thresholds_dac", "bias_dac", "power_monitor"},
          step : {"configure"}]

\* A faulty Devices::new that puts the bias DAC in pinch-off only after every
\* device of the module has answered.
Devices_new_probing_first(outcome, d) ==
    IF outcome.step # "probe" THEN [some |-> TRUE, panic |-> "", d |-> NoDevices]
    ELSE IF outcome.device = "bias_dac"
    THEN [some |-> FALSE, panic |-> "Bias DAC did not respond", d |-> d]
    ELSE IF outcome.device = "power_monitor"
    THEN [some |-> FALSE, panic |-> "Power monitor did not respond", d |-> d]
    ELSE [some |-> FALSE, panic |-> "", d |-> d]

\* Devices::new: the bias DAC is put in pinch-off first, and the mainboard
\* devices are expected to answer; then the module is probed, and a module
\* device that does not answer gives None.
Devices_new(outcome, d) ==
    IF outcome.step # "probe" THEN [some |-> TRUE, panic |-> "", d |-> NoDevices]
    ELSE IF outcome.device = "bias_dac"
    THEN [some |-> FALSE, panic |-> "Bias DAC did not respond", d |-> d]
    ELSE IF outcome.device = "power_monitor"
    THEN [some |-> FALSE, panic |-> "Power monitor did not respond", d |-> NoDevices]
    ELSE [some |-> FALSE, panic |-> "", d |-> NoDevices]

\* RfChannel::new, the Some arm: thresholds, bias and power-monitor limits are
\* written and every result is unwrapped.
RfChannel_new_configure(outcome) ==
    IF outcome.step # "configure" THEN ""
    ELSE IF outcome.device = "interlock_thresholds_dac" THEN "set_interlock_thresholds unwrap"
    ELSE IF outcome.device = "bias_dac" THEN "set_bias unwrap"
    ELSE "set_thresholds unwrap"

\* Before BoosterChannels::new: the pins of every slot have been constructed,
\* no slot holds a channel, no device has been commanded, no bus is selected.
EnumInit ==
    /\ channels \in [Channel -> {ChannelPins_new(p, g) : p \in BOOLEAN, g \in BOOLEAN}]
    /\ dev = [c \in Channel |-> UncommandedDevices]
    /\ settings = [c \in Channel |-> DefaultSettings]
    /\ mux = -1
    /\ pc = "new"
    /\ cursor = 0
    /\ visited = <<>>
    /\ panic_msg = ""
    /\ last = NoOperation
    /\ client = ControlState_new("mqtt_control")

\* BoosterChannels::new, loop body: select the slot's bus and try RfChannel::new.
new_visit ==
    /\ pc = "new"
    /\ cursor < NumChannels
    /\ \E outcome \in ProbeOutcomes :
         LET channel == cursor
             probed == Devices_new(outcome, dev[channel])
             configured == RfChannel_new_configure(outcome)
         IN
         IF outcome.step = "select"
         THEN /\ Panic("new", channel, outcome, "Failed to select channel", channels,
                       FALSE, NoLevels)
              /\ UNCHANGED <<dev, mux, cursor>>
         ELSE /\ mux' = into_bus(channel)
              /\ IF probed.panic # ""
                 THEN /\ Panic("new", channel, outcome, probed.panic, channels,
                               FALSE, NoLevels)
                      /\ dev' = [dev EXCEPT ![channel] = probed.d]
                      /\ UNCHANGED cursor
                 ELSE IF ~probed.some
                 THEN /\ last' = Record("new", channel, outcome, "None", FALSE, NoLevels,
                                        channels[channel])
                      /\ dev' = [dev EXCEPT ![channel] = probed.d]
                      /\ cursor' = cursor + 1
                      /\ UNCHANGED <<channels, pc, panic_msg>>
                 ELSE IF configured # ""
                 THEN /\ Panic("new", channel, outcome, configured, channels,
                               TRUE, NoLevels)
                      /\ dev' = [dev EXCEPT ![channel] = probed.d]
                      /\ UNCHANGED cursor
                 ELSE /\ channels' = [channels EXCEPT ![channel] = RfChannel_new.ch]
                      /\ dev' = [dev EXCEPT ![channel] = RfChannel_new.d]
                      /\ last' = Record("new", channel, outcome, "Some", TRUE, NoLevels,
                                        channels[channel])
                      /\ cursor' = cursor + 1
                      /\ UNCHANGED <<pc, panic_msg>>
    /\ UNCHANGED <<settings, visited>>
    /\ UNCHANGED client

\* BoosterChannels::new, exit: the registry is built and the control loop starts.
new_return ==
    /\ pc = "new"
    /\ cursor = NumChannels
    /\ pc' = "idle"
    /\ cursor' = 0
    /\ last' = NoOperation
    /\ UNCHANGED <<channels, dev, settings, mux, visited, panic_msg>>
    /\ UNCHANGED client

EnumNext ==
    \/ new_visit
    \/ new_return
    \/ Next

EnumSpec == EnumInit /\ [][EnumNext]_vars

\* ------------------------------------------------------- powered channels
\* A channel whose supply and RF switch are on.
PoweredChannel == [RfChannel_new.ch EXCEPT !.enable_power = TRUE, !.signal_on = TRUE]

\* The firmware before the enumeration, or a registry each of whose slots is
\* empty, holds a channel that is off, or holds a channel that is on.
PoweredInit ==
    \/ EnumInit
    \/ /\ channels \in [Channel -> {NoChannel, RfChannel_new.ch, PoweredChannel}]
       /\ dev = [c \in Channel |-> IF channels[c].some THEN RfChannel_new.d ELSE NoDevices]
       /\ settings = [c \in Channel |-> DefaultSettings]
       /\ mux = into_bus(NumChannels - 1)
       /\ pc = "idle"
       /\ cursor = 0
       /\ visited = <<>>
       /\ panic_msg = ""
       /\ last = NoOperation
       /\ client = ControlState_new("mqtt_control")
    /\ client = ControlState_new("mqtt_control")

\* The enumeration, the sweep, the switching operations and the queries: the
\* operations that set no bias, no threshold and no settings.
PoweredNext ==
    \/ new_visit
    \/ new_return
    \/ \E channel \in Channel : enable_channel(channel)
    \/ \E channel \in Channel : disable_channel(channel)
    \/ \E channel \in Channel : get_temperature(channel)
    \/ \E channel \in Channel : get_channel_state(channel)
    \/ \E channel \in Channel : get_status(channel)
    \/ \E channel \in Channel, id \in PropertyId : read_property(channel, id)
    \/ update_start
    \/ update_visit
    \/ update_return

PoweredSpec == PoweredInit /\ [][PoweredNext]_vars

\* ------------------------------------------------------------ fault path
\* The firmware at the moment of a fault: any level on the output pins of every
\* slot, the control loop between operations or inside a sweep.
FaultInit ==
    /\ channels \in [Channel ->
          {[base EXCEPT !.enable_power = p, !.signal_on = g] :
              base \in {RfChannel_new.ch, NoChannel}, p \in BOOLEAN, g \in BOOLEAN}]
    /\ dev = [c \in Channel |-> IF channels[c].some THEN RfChannel_new.d ELSE NoDevices]
    /\ settings = [c \in Channel |-> DefaultSettings]
    /\ mux = into_bus(NumChannels - 1)
    /\ \/ pc = "idle" /\ cursor = 0 /\ last = NoOperation
       \/ pc = "sweep" /\ cursor \in 0 .. NumChannels
                       /\ last = [NoOperation EXCEPT !.op = "update"]
    /\ visited = <<>>
    /\ panic_msg = ""
    /\ client = ControlState_new("mqtt_control")

\* panic: cortex_m::interrupt::disable(); nothing the control loop holds is asked for.
panic_interrupt_disable ==
    /\ pc \in {"idle", "sweep"}
    /\ pc' = "irq_off"
    /\ panic_msg' = "fault"
    /\ last' = [last EXCEPT !.result = "Panic", !.before = channels[0]]
    /\ UNCHANGED <<channels, dev, settings, mux, cursor, visited>>
    /\ UNCHANGED client

\* panic: shutdown_channels, the write to GPIOG_BSRR.
panic_shutdown_sig_on ==
    /\ pc = "irq_off"
    /\ channels' = shutdown_sig_on(channels)
    /\ pc' = "sig_off"
    /\ UNCHANGED <<dev, settings, mux, cursor, visited, panic_msg, last>>
    /\ UNCHANGED client

\* panic: shutdown_channels, the write to GPIOD_BSRR; then the reset or the endless loop.
panic_shutdown_en_pwr ==
    /\ pc = "sig_off"
    /\ channels' = shutdown_en_pwr(channels)
    /\ pc' = "panic"
    /\ UNCHANGED <<dev, settings, mux, cursor, visited, panic_msg, last>>
    /\ UNCHANGED client

FaultNext ==
    \/ panic_interrupt_disable
    \/ panic_shutdown_sig_on
    \/ panic_shutdown_en_pwr

FaultSpec == FaultInit /\ [][FaultNext]_vars

\* ------------------------------------------------------- power-down study
\* power_down_channel, the first write, on the pins of slot c: called by
\* ChannelPins::new and RfChannel::disable between two operations, and by the
\* update of the slot the sweep is visiting when an interlock tripped.
power_down_signal_on(c) ==
    /\ pc \in {"idle", "sweep"}
    /\ (pc = "sweep") => (c = cursor)
    /\ channels' = [channels EXCEPT ![c] = power_down_first(@)]
    /\ pc' = IF pc = "idle" THEN "powering_down" ELSE "tripping"
    /\ last' = [last EXCEPT !.channel = c, !.before = channels[c]]
    /\ UNCHANGED <<dev, settings, mux, cursor, visited, panic_msg>>
    /\ UNCHANGED client

\* power_down_channel, the second write, and the return to the caller.
power_down_enable_power ==
    /\ pc \in {"powering_down", "tripping"}
    /\ channels' = [channels EXCEPT ![last.channel] = power_down_second(@)]
    /\ pc' = IF pc = "powering_down" THEN "idle" ELSE "sweep"
    /\ UNCHANGED <<dev, settings, mux, cursor, visited, panic_msg, last>>
    /\ UNCHANGED client

\* The firmware with any level on the output pins of every slot, between two
\* operations or inside a sweep that visits a slot.
PowerDownInit ==
    /\ FaultInit
    /\ (pc = "sweep") => (cursor < NumChannels)

PowerDownNext ==
    \/ \E c \in Channel : power_down_signal_on(c)
    \/ power_down_enable_power
    \/ panic_interrupt_disable
    \/ panic_shutdown_sig_on
    \/ panic_shutdown_en_pwr

PowerDownSpec == PowerDownInit /\ [][PowerDownNext]_vars

\* ------------------------------------------------------------- properties
\* C1: disable() on a present channel returns without a fault and leaves the
\* shadow bias at -3.3 V and both output pins low.
C1_DisableYieldsPinchOff ==
    (last.op = "disable_channel" /\ last.touched) =>
        /\ pc # "panic"
        /\ last.result = "Ok"
        /\ get_bias_voltage(channels[last.channel]) = -33
        /\ ~channels[last.channel].signal_on
        /\ ~channels[last.channel].enable_power

\* C2: the shadow bias of every present channel lies in [-3.3 V, 0 V], and is at
\* most -3.0 V while the channel is disabled.
C2_BiasShadowInRange ==
    \A c \in Channel :
        channels[c].some =>
            /\ get_bias_voltage(channels[c]) >= -33
            /\ get_bias_voltage(channels[c]) <= 0
            /\ (~channels[c].enable_power => get_bias_voltage(channels[c]) <= -30)

\* C3 (as amended): a per-channel operation on an absent slot selects the slot's
\* multiplexer bus and nothing else: it returns NotPresent with no channel device
\* touched, unless the select itself failed, which stops the firmware.
C3_AbsentSlotNotPresent ==
    (last.op \notin {"new", "update"} /\ ~last.before.some) =>
        /\ ~last.touched
        /\ \/ last.result = "NotPresent" /\ mux = into_bus(last.channel) /\ pc = "idle"
           \/ last.result = "Panic" /\ pc = "panic" /\ panic_msg = "select_bus unwrap"

\* C3, a state where it applies: set_bias on the absent slot 0 returned NotPresent
\* after moving the multiplexer to bus 0.
C3_Witness ==
    /\ last.op = "set_bias"
    /\ last.channel = 0
    /\ ~last.before.some
    /\ last.result = "NotPresent"
    /\ mux = into_bus(0)

\* C3 (as stated): a per-channel operation that returns NotPresent performed no
\* bus transaction, so the multiplexer is still on the bus it was on.
C3_AbsentSlotNoBusTransaction ==
    [][(last'.op \notin {"new", "update"} /\ last'.result = "NotPresent") => mux' = mux]_vars

\* C4: a sweep visit that senses an interlock on a present channel leaves the
\* firmware running with the channel's pins low and its shadow bias at -3.3 V.
C4_InterlockSweepDisables ==
    (last.op = "update" /\ last.touched /\ last.sensed # NoLevels) =>
        /\ pc # "panic"
        /\ ~channels[last.channel].signal_on
        /\ ~channels[last.channel].enable_power
        /\ get_bias_voltage(channels[last.channel]) = -33

\* C5: a sweep visit of a present channel with no sense line asserted leaves the
\* channel (pins, shadow bias, thresholds, derived state) as it was and does not
\* take the disable path.
C5_UnfaultedChannelUnchanged ==
    (last.op = "update" /\ last.touched /\ last.sensed = NoLevels) =>
        /\ channels[last.channel] = last.before
        /\ get_state(channels[last.channel], last.sensed) = get_state(last.before, last.sensed)
        /\ panic_msg # "Failed to disable RF bias voltage"

\* C5, a state where it applies: a sweep has returned whose last visit found a
\* present channel with no line asserted.
C5_Witness ==
    /\ last.op = "update"
    /\ last.touched
    /\ last.sensed = NoLevels
    /\ last.result = "Ok"
    /\ pc = "idle"
    /\ channels[last.channel] = last.before

\* C6: a sweep never stops early for a channel (only a failed bus select stops
\* it), and a returned sweep has updated exactly the present channels, in order.
C6_SweepRunsToCompletion ==
    last.op = "update" =>
        /\ pc = "panic" => panic_msg = "select_bus unwrap"
        /\ pc = "idle" =>
              visited = SelectSeq([i \in 1 .. NumChannels |-> i - 1],
                                  LAMBDA c : channels[c].some)

\* C7: a present channel whose update returns an error does not stop the firmware.
C7_FailedUpdateDoesNotFault ==
    ~(pc = "panic" /\ panic_msg = "update unwrap")

\* C8: after a set_bias(v) that returned Ok, get_bias_voltage() is v.
C8_SetBiasRoundTrip ==
    (last.op = "set_bias" /\ last.touched /\ last.result = "Ok") =>
        get_bias_voltage(channels[last.channel]) = last.arg

\* C9: set_bias(v) with v outside [-3.3 V, 0 V] on a present channel returns
\* Bounds and leaves the shadow bias, the pins and the thresholds as they were.
C9_SetBiasOutOfRange ==
    (last.op = "set_bias" /\ last.touched /\ (last.arg < -33 \/ last.arg > 0)) =>
        /\ last.result = "Bounds"
        /\ channels[last.channel] = last.before
        /\ pc = "idle"

\* C9, a state where it applies: set_bias(+0.1 V) was refused on a channel whose
\* bias had been set before.
C9_Witness ==
    /\ last.op = "set_bias"
    /\ last.touched
    /\ last.arg = 1
    /\ last.result = "Bounds"
    /\ last.before.bias_voltage = 16

\* C10: power_channel on a present channel returns Ok with enable_power high and
\* signal_on low.
C10_PowerChannelPowers ==
    (last.op = "power_channel" /\ last.touched) =>
        /\ last.result = "Ok"
        /\ channels[last.channel].enable_power
        /\ ~channels[last.channel].signal_on

\* C11: enable_channel on a present channel returns Ok with enable_power and
\* signal_on both high, and the channel is then reported Enabled when no line is
\* asserted.
C11_EnableChannelEnables ==
    (last.op = "enable_channel" /\ last.touched) =>
        /\ last.result = "Ok"
        /\ channels[last.channel].enable_power
        /\ channels[last.channel].signal_on
        /\ is_enabled(channels[last.channel], NoLevels)

\* C12: when a registry operation has touched a device of channel c, the
\* multiplexer is on bus c: the operation selected it first and nothing selected
\* another bus before the operation returned.
C12_DeviceAccessOnSelectedBus ==
    last.touched => mux = last.channel

\* C12, a state where it applies: get_status read the devices of channel 0, after
\* the multiplexer had been left on the last bus by the enumeration.
C12_Witness ==
    /\ last.op = "get_status"
    /\ last.touched
    /\ last.channel = 0
    /\ pc = "idle"
    /\ mux = 0

C14_PanicForcesOutputsLow ==
    pc = "panic" =>
        \A c \in Channel : ~channels[c].signal_on /\ ~channels[c].enable_power

\* C14, a state where it applies: the handler ran while a sweep was under way and
\* the outputs of channel 0 were both high.
C14_Witness ==
    /\ pc = "panic"
    /\ last.op = "update"
    /\ cursor = 1
    /\ last.before.signal_on
    /\ last.before.enable_power
    /\ ~channels[0].signal_on
    /\ ~channels[0].enable_power

\* C15: during enumeration a module that does not probe leaves its slot empty
\* and the enumeration goes on with the next slot; once new() has returned no
\* step changes which slots hold a channel.
C15_PresenceFixedAfterNew ==
    [][/\ (pc = "new" /\ last'.op = "new" /\ last'.result = "None") =>
            /\ pc' = "new"
            /\ cursor' = cursor + 1
            /\ ~channels'[cursor].some
       /\ pc # "new" => \A c \in Channel : channels'[c].some = channels[c].some]_vars

\* C15, a state where it applies: slot 0 did not probe, slot 1 did, and a later
\* operation on slot 0 found it absent still.
C15_Witness ==
    /\ pc = "idle"
    /\ ~channels[0].some
    /\ channels[1].some
    /\ last.op = "enable_channel"
    /\ last.channel = 0
    /\ last.result = "NotPresent"

\* C16: the two threshold writes are independent: whenever the output threshold
\* is in range and its DAC transaction goes through, DAC output B holds the new
\* output voltage whatever happened to the reflected write, and likewise DAC
\* output A for the reflected threshold.
C16_IndependentThresholdWrites ==
    (last.op = "write_property" /\ last.touched) =>
        LET c == last.channel
            vb == (last.arg.output + 56) * 350
            va == (last.arg.reflected + 56) * 525
        IN  /\ (last.arg.ok_b /\ vb >= 0 /\ vb < 250000) => dev[c].thr_b = vb
            /\ (last.arg.ok_a /\ va >= 0 /\ va < 250000) => dev[c].thr_a = va

\* C17: after a threshold write of (o, r) that returned Ok, the output accessor
\* returns o and the reflected accessor returns r.
C17_ThresholdAccessors ==
    (last.op = "write_property" /\ last.touched /\ last.result = "Ok") =>
        /\ get_output_interlock_threshold(channels[last.channel]) = last.arg.output
        /\ get_reflected_interlock_threshold(channels[last.channel]) = last.arg.reflected

\* C18: a load never stops the firmware; it leaves the defaults in RAM and in the
\* EEPROM when the container it found was invalid or its payload failed the
\* validation, and otherwise the stored payload in RAM and the EEPROM as found.
C18_LoadNeverFaults ==
    last.op = "load_settings" =>
        LET found == last.arg.eeprom
            s == settings[StudyChannel]
            usable == /\ found.crc32 = Crc32(found.board_data)
                      /\ found.board_data[4] \in {0, 1}
                      /\ found.board_data[3] >= -33
                      /\ found.board_data[3] <= 0
        IN  /\ pc # "panic"
            /\ IF usable
               THEN /\ to_slice(s.data) = payload(found.board_data)
                    /\ s.eeprom = found
               ELSE /\ s.data = DefaultData
                    /\ payload(s.eeprom.board_data) = to_slice(DefaultData)
                    /\ s.eeprom.crc32 = Crc32(s.eeprom.board_data)

C20_ReloadAfterSave ==
    (last.op = "load_settings" /\ last.arg.after_save /\ last.result # "Panic") =>
        /\ settings[StudyChannel].data
              = RfChannel_settings(channels[StudyChannel], settings[StudyChannel].data)
        /\ settings[StudyChannel].data.bias_voltage
              = get_bias_voltage(channels[StudyChannel])

C22_EepromChangesOnlyOnSave ==
    [][\A c \in Channel :
          settings'[c].eeprom # settings[c].eeprom =>
              (last'.op = "save_configuration" /\ last'.channel = c)]_vars

\* C22, a state where it applies: the bias of a channel was saved and then set
\* to another value; the EEPROM still holds the bias that was saved.
C22_Witness ==
    /\ last.op = "set_bias"
    /\ last.touched
    /\ last.result = "Ok"
    /\ get_bias_voltage(channels[last.channel]) = 16
    /\ settings[last.channel].eeprom.board_data[3] = 33
    /\ to_slice(settings[last.channel].data)[3] = 33

C24_DecodeErrorChangesNothing ==
    [][(/\ last.op = "poll"
        /\ LET route == last.arg.route
               message == last.arg.message
           IN  \/ route = "channel/state" /\ ~from_slice_ChannelRequest(message)
               \/ route = "channel/tune" /\ ~from_slice_ChannelTuneRequest(message)
               \/ route = "channel/read" /\ ~from_slice_PropertyReadRequest(message)
               \/ /\ route = "channel/write"
                  /\ \/ ~from_slice_PropertyWriteRequest(message)
                     \/ ~from_str(message.prop,
                                  [i \in 1 .. Len(message.data) |->
                                      IF message.data[i].chr = "'"
                                      THEN Chr("\"") ELSE message.data[i]]).ok)
       => /\ last'.op \in {"handle_channel_update", "handle_channel_tune",
                           "handle_channel_property_read", "handle_channel_property_write"}
          /\ last'.result.code = 400
          /\ last'.arg = last.arg.message
          /\ ~last'.touched
          /\ UNCHANGED <<channels, dev, settings, mux, pc, cursor, visited, panic_msg>>]_vars

\* C24, a state where it applies: a property write whose data is cut short was
\* refused after the bias of channel 0 had been tuned and a threshold written;
\* the multiplexer is where the enumeration left it or on bus 0.
C24_Witness ==
    /\ last.op = "handle_channel_property_write"
    /\ last.result = Response_error_msg("Failed to decode property")
    /\ last.arg.channel = 0
    /\ channels[0].some
    /\ get_bias_voltage(channels[0]) = 16
    /\ channels[0].reflected_interlock_threshold # RfChannel_new.ch.reflected_interlock_threshold
    /\ pc = "idle"

\* C25: the data of every property read response is the serialized property
\* with each double quote replaced by an apostrophe and nothing else changed;
\* the data of every property write is parsed with each apostrophe replaced by
\* a double quote; and the data of a read response, taken as the data of a
\* write, gives back the serialized property and the property value.
C25_QuoteSubstitution ==
    [][/\ (/\ last.op = "poll"
           /\ last.arg.route = "channel/read"
           /\ last'.op = "read_property"
           /\ last'.touched)
          => LET prop == last.arg.message.prop
                 serialized == to_string(prop, last'.result)
                 data == PropertyReadResponse_okay(prop, last'.result).data
             IN  /\ Len(data) = Len(serialized)
                 /\ \A i \in 1 .. Len(data) :
                       /\ data[i].chr # "\""
                       /\ IF serialized[i].chr = "\""
                          THEN data[i].chr = "'"
                          ELSE data[i] = serialized[i]
                 /\ single_to_double(data) = serialized
                 /\ PropertyWriteRequest_property(prop, data).ok
                 /\ PropertyWriteRequest_property(prop, data).value = last'.result
       /\ (/\ last.op = "poll"
           /\ last.arg.route = "channel/write"
           /\ last'.op = "write_property"
           /\ last'.touched)
          => LET data == last.arg.message.data
                 parsed == [i \in 1 .. Len(data) |->
                               IF data[i].chr = "'" THEN Chr("\"") ELSE data[i]]
             IN  /\ to_string(last.arg.message.prop,
                              <<last'.arg.output, last'.arg.reflected>>) = parsed
                 /\ \A i \in 1 .. Len(parsed) : parsed[i].chr # "'"]_vars

\* C25, a state where it applies: thresholds arrived in a property write with
\* apostrophes, were written to channel 0, and were then read back as a property.
C25_Witness ==
    /\ last.op = "read_property"
    /\ last.touched
    /\ last.result = RfChannel_get_property(channels[last.channel],
                                            settings[last.channel].data, "InterlockThresholds")
    /\ dev[last.channel].thr_b = (100 + 56) * 350
    /\ dev[last.channel].thr_a = (200 + 56) * 525
    /\ PropertyReadResponse_okay("InterlockThresholds", last.result).data[2] = Chr("'")

\* C26: a failed bus select stops the firmware in the fault path with the
\* outputs of every slot low and no device touched; it is never handed back as
\* a result and no operation goes on without its bus: an operation that has
\* returned, a sweep or an enumeration that has passed a slot, left the
\* multiplexer on the bus of that slot.
C26_SelectFailureIsFatal ==
    /\ panic_msg \in {"select_bus unwrap", "Failed to select channel"} =>
          /\ pc = "panic"
          /\ last.result = "Panic"
          /\ ~last.touched
          /\ \A c \in Channel : ~channels[c].signal_on /\ ~channels[c].enable_power
    /\ (pc = "idle" /\ last.op \notin {"new", "update"}) => mux = into_bus(last.channel)
    /\ (pc \in {"new", "sweep"} /\ cursor > 0) => mux = into_bus(cursor - 1)

\* C26, a state where it applies: the sweep could not select the bus of slot 1,
\* whose channel was on, and the fault path has switched it off.
C26_Witness ==
    /\ pc = "panic"
    /\ panic_msg = "select_bus unwrap"
    /\ last.op = "update"
    /\ last.channel = 1
    /\ last.before.signal_on
    /\ last.before.enable_power
    /\ ~channels[1].signal_on
    /\ ~channels[1].enable_power
    /\ mux = into_bus(0)

\* C28: on the disable path and on the interlock path of the sweep the output
\* pins are lowered before the pinch-off write to the bias DAC: whatever the
\* channel was, the outcome of a disable whose DAC write fails has enable_power
\* and signal_on low, and so has the channel when the firmware stops for the
\* failed write.
C28_PinsLowBeforeDacWrite ==
    (/\ last.op \in {"disable_channel", "update"}
     /\ last.touched
     /\ (last.op = "update" => last.sensed # NoLevels)) =>
        LET c == last.channel
            failed == IF last.op = "update"
                      THEN RfChannel_update(last.before, dev[c], last.sensed, TRUE, FALSE)
                      ELSE RfChannel_disable(last.before, dev[c], FALSE)
        IN  /\ failed.panic = "Failed to disable RF bias voltage"
            /\ ~failed.ch.signal_on
            /\ ~failed.ch.enable_power
            /\ panic_msg = "Failed to disable RF bias voltage" =>
                  ~channels[c].signal_on /\ ~channels[c].enable_power

\* C28, a state where it applies: the sweep sensed an alert on a channel that
\* was on, the pinch-off write failed, and both pins of the channel are low.
C28_Witness ==
    /\ last.op = "update"
    /\ last.touched
    /\ ~last.sensed.alert
    /\ last.before.signal_on
    /\ last.before.enable_power
    /\ panic_msg = "Failed to disable RF bias voltage"
    /\ ~channels[last.channel].signal_on
    /\ ~channels[last.channel].enable_power

\* C27: a failed device transaction in an operation on a present channel
\* (temperature read, power measurement, bias write, threshold write) comes back
\* to the caller as an Interface error and leaves the channel as it was: the
\* firmware never stops for such a failure, and an operation that returned
\* Interface changed neither the pins, the shadow bias nor the thresholds.
C27_DeviceFailureIsInterfaceError ==
    /\ panic_msg \notin {"get_remote_temperature unwrap", "Failed to set DAC bias voltage",
                         "power_monitor get_voltage unwrap",
                         "input_power_adc get_voltage unwrap"}
    /\ (/\ last.op \in {"get_temperature", "get_status", "set_bias", "write_property"}
        /\ last.touched
        /\ last.result = "Interface") => channels[last.channel] = last.before

C29_ReturnedQueriesChangeNothing ==
    (/\ last.op \in {"get_status", "get_temperature", "get_channel_state", "read_property"}
     /\ last.touched
     /\ pc # "panic") => channels[last.channel] = last.before

\* C30: in the enumeration a failing mainboard device (bias DAC, power monitor)
\* stops the firmware and never leaves an empty slot, and a failing module
\* device (threshold DAC, EEPROM, temperature sensor, input-power ADC) leaves an
\* empty slot and never stops the firmware.
C30_ProbeFailureClasses ==
    (/\ last.op = "new"
     /\ last.result # "Ok"
     /\ last.arg.step \in {"probe", "configure"}) =>
        /\ last.arg.device \in MainboardDevices =>
              /\ pc = "panic"
              /\ last.result = "Panic"
        /\ last.arg.device \in ModuleDevices =>
              /\ pc # "panic"
              /\ last.result = "None"
              /\ ~channels[last.channel].some

\* C31: a property write of a power transform that decodes replaces the slope
\* and the offset of that transform together and leaves the other transforms,
\* the thresholds, the bias, the devices and the EEPROM as they were; a write
\* whose request or data does not decode is answered with code 400 and changes
\* nothing.
C31_TransformWriteIsWhole ==
    [][(/\ last.op = "poll"
        /\ last.arg.route = "channel/write"
        /\ last.arg.message.prop \in TransformId)
       => LET m == last.arg.message
              decoded == from_slice_PropertyWriteRequest(m)
              parsed == PropertyWriteRequest_property(m.prop, m.data)
          IN  IF decoded /\ parsed.ok
              THEN IF last'.op = "write_property" /\ last'.touched
                   THEN LET c == m.channel
                            now == settings'[c].data
                            was == settings[c].data
                        IN  /\ RfChannel_get_property(channels'[c], now, m.prop) = parsed.value
                            /\ \A id \in PropertyId \ {m.prop} :
                                  RfChannel_get_property(channels'[c], now, id)
                                     = RfChannel_get_property(channels[c], was, id)
                            /\ now.bias_voltage = was.bias_voltage
                            /\ now.enabled = was.enabled
                            /\ now.output_interlock_threshold = was.output_interlock_threshold
                            /\ now.reflected_interlock_threshold
                                  = was.reflected_interlock_threshold
                            /\ settings'[c].eeprom = settings[c].eeprom
                            /\ \A o \in Channel \ {c} : settings'[o] = settings[o]
                            /\ UNCHANGED <<channels, dev>>
                   ELSE UNCHANGED <<channels, dev, settings>>
              ELSE /\ last'.op = "handle_channel_property_write"
                   /\ last'.result.code = 400
                   /\ UNCHANGED <<channels, dev, settings, mux>>]_vars

\* C31, a state where it applies: the output transform of channel 0 was written
\* after its thresholds and its bias had been set; the two other transforms are
\* the defaults.
C31_Witness ==
    /\ last.op = "write_property"
    /\ last.touched
    /\ "id" \in DOMAIN last.arg
    /\ last.arg.id = "OutputPowerTransform"
    /\ settings[0].data.output_power_transform = LinearTransformation_new(20, -300)
    /\ settings[0].data.input_power_transform = DefaultData.input_power_transform
    /\ settings[0].data.reflected_power_transform = DefaultData.reflected_power_transform
    /\ dev[0].thr_b = (100 + 56) * 350
    /\ get_bias_voltage(channels[0]) = 16

\* C32: for every transform with a slope other than zero, apply(0) is the
\* offset, apply(x) - apply(0) is slope * x, and the inverse of apply(x) is x.
C32_LinearTransformation ==
    LET t == settings[StudyChannel].data.input_power_transform
    IN  /\ last.op = "apply" =>
              /\ t.slope # 0
              /\ LinearTransformation_apply(t, 0) = t.offset
              /\ last.result - LinearTransformation_apply(t, 0) = t.slope * last.arg
        /\ last.op = "inverse" => last.result = last.arg

\* C32, a state where it applies: the default input-power transform took the
\* reading 7 to 15 * 7 - 267 and the inverse took that value back to 7.
C32_Witness ==
    /\ last.op = "inverse"
    /\ settings[StudyChannel].data.input_power_transform = DefaultData.input_power_transform
    /\ last.arg = 7
    /\ last.result = 7
    /\ LinearTransformation_apply(DefaultData.input_power_transform, 7) = -162

C35_ForeignTopicIgnored ==
    [][(last'.op = "ignore" /\ last'.arg.id # DeviceId) =>
            /\ UNCHANGED <<channels, dev, settings, mux, pc, panic_msg, cursor, visited>>
            /\ client'.published = client.published
            /\ ~client'.request.pending
            /\ last'.result = "Ignored"
            /\ last'.touched = FALSE
      ]_<<last.op, last.channel, client, mux, pc>>

\* C35, a state where it applies: after a response was published, a write
\* request for another device arrived and was ignored.
C35_Witness ==
    /\ last.op = "ignore"
    /\ last.arg.id = "other"
    /\ last.arg.route = "channel/write"
    /\ client.published.seq = 1
    /\ channels[0].some

\* C36: a request of this device that arrives on a topic the client subscribed
\* to is handed to the handler of its route: it is never answered by the arm
\* of the unexpected topics.
C36_SubscribedRoutesDispatched ==
    [][(/\ client.request.pending
        /\ last.op = "poll"
        /\ last.arg.route \in ControlTopics(client.version)) =>
            last'.op # "update"
      ]_<<last.op, client>>

\* C37: in the status get_status returns, output_overdrive is set exactly when
\* the output overdrive line is low and reflected_overdrive exactly when the
\* other overdrive line is low, so that one of the two is set exactly when
\* is_overdriven holds, and alert is set exactly when is_alarmed holds.
C37_StatusFlagsAgreeWithSensing ==
    (last.op = "get_status" /\ last.touched /\ pc # "panic") =>
        /\ last.result.output_overdrive = ~last.sensed.output_overdrive
        /\ last.result.reflected_overdrive = ~last.sensed.input_overdrive
        /\ (last.result.output_overdrive \/ last.result.reflected_overdrive)
              = is_overdriven(last.sensed)
        /\ last.result.alert = is_alarmed(last.sensed)

\* C38: a slot without a channel has its enable-power and signal-enable outputs
\* low in every state; while the registry is constructed the outputs of every
\* slot are low and the bias DAC of every slot the enumeration has passed is in
\* pinch-off; and whenever the enumeration of a slot got as far as a device of
\* the module, the bias DAC of that slot had been put in pinch-off.
C38_SlotsSafeAfterConstruction ==
    /\ \A c \in Channel :
          ~channels[c].some => (~channels[c].enable_power /\ ~channels[c].signal_on)
    /\ (pc = "new") =>
          \A c \in Channel :
             /\ ~channels[c].enable_power
             /\ ~channels[c].signal_on
             /\ (c < cursor) => dev[c].bias_dac = NoDevices.bias_dac
    /\ (/\ last.op = "new"
        /\ last.result \in {"None", "Some", "Panic"}
        /\ \/ last.arg.step \in {"done", "configure"}
           \/ last.arg.step = "probe" /\ last.arg.device \in ModuleDevices) =>
          dev[last.channel].bias_dac = NoDevices.bias_dac

\* C38, a state where it applies: the enumeration installed the module of slot
\* 0 and left slot 1 absent because the EEPROM of its module did not answer.
C38_Witness ==
    /\ pc = "new"
    /\ cursor = 2
    /\ channels[0].some
    /\ ~channels[1].some
    /\ last.op = "new"
    /\ last.result = "None"
    /\ last.arg.device = "eui48"
    /\ dev[1].bias_dac = NoDevices.bias_dac
    /\ ~channels[1].enable_power
    /\ ~channels[1].signal_on

\* C39: no step of a power-down, by power_down_channel or by the shutdown of
\* the panic handler, takes the supply of a channel away and leaves its signal
\* enabled; a channel whose signal is enabled only with the supply on stays so
\* over every step.
C39_SignalOffBeforePower ==
    [][\A c \in Channel :
          /\ (channels[c].enable_power /\ ~channels'[c].enable_power) =>
                ~channels'[c].signal_on
          /\ (channels[c].signal_on => channels[c].enable_power) =>
                (channels'[c].signal_on => channels'[c].enable_power)
      ]_channels

\* C39, a state where it applies: disable of slot 0, which was on, has taken
\* the signal away and not yet the supply.
C39_Witness ==
    /\ pc = "powering_down"
    /\ last.channel = 0
    /\ last.before.signal_on
    /\ last.before.enable_power
    /\ ~channels[0].signal_on
    /\ channels[0].enable_power

====
